---- MODULE Spec2Model ----
(***************************************************************************)
(* Model of scripts/translate_pdf.py: the font resolution pipeline of      *)
(* main() (default handles, catalog, document-level registration loop,     *)
(* per-page secondary registration, page font insertion and placement).    *)
(*                                                                         *)
(* Font names are sequences of tokens: "ABCDEF+OpenSans-Bold" is           *)
(* <<"ABCDEF","+","Open","Sans","-","Bold">>.  Substring tests, splits,     *)
(* replacements and the regular expressions of the source are computed on  *)
(* these token sequences.                                                  *)
(***************************************************************************)
EXTENDS Integers, Sequences, FiniteSets, TLC

(* ---------------------------------------------------------------------- *)
(* Bounds                                                                  *)
(* ---------------------------------------------------------------------- *)
MaxDocFonts == 2
MaxPages == 1
MaxSpans == 1

(* ---------------------------------------------------------------------- *)
(* Generic helpers on functions used as Python dicts                       *)
(* ---------------------------------------------------------------------- *)
None == <<"None">>

EmptyDict == [x \in {} |-> None]

Put(d, k, v) == [x \in (DOMAIN d) \cup {k} |-> IF x = k THEN v ELSE d[x]]

Get(d, k, dflt) == IF k \in DOMAIN d THEN d[k] ELSE dflt

Or(a, b) == IF a = None \/ a = <<>> THEN b ELSE a

(* ---------------------------------------------------------------------- *)
(* Token-level string functions                                            *)
(* ---------------------------------------------------------------------- *)
StyleWords == {"Bold", "Italic", "Regular", "Oblique"}

Lower(t) ==
    CASE t = "Open" -> "open" [] t = "Sans" -> "sans" [] t = "Lato" -> "lato"
      [] t = "Arial" -> "arial" [] t = "Times" -> "times" [] t = "New" -> "new"
      [] t = "Roman" -> "roman" [] t = "PSMT" -> "psmt" [] t = "ABCDEF" -> "abcdef"
      [] t = "Bold" -> "bold" [] t = "Italic" -> "italic" [] t = "Regular" -> "regular"
      [] t = "Oblique" -> "oblique" [] t = "Roboto" -> "roboto"
      [] t = "Condensed" -> "condensed" [] t = "Unnamed" -> "unnamed"
      [] OTHER -> t

\* number of characters of a token, for max(matches, key=len)
TokLen(t) ==
    CASE t \in {"Open", "Sans", "Lato", "PSMT", "Bold"} -> 4
      [] t \in {"Arial", "Times", "Roman"} -> 5
      [] t = "New" -> 3
      [] t \in {"ABCDEF", "Italic", "Roboto"} -> 6
      [] t \in {"Regular", "Oblique", "Unnamed"} -> 7
      [] t = "Condensed" -> 9
      [] OTHER -> 1

RECURSIVE StrLen(_)
StrLen(s) == IF s = <<>> THEN 0 ELSE TokLen(Head(s)) + StrLen(Tail(s))

\* x in s  for a one-word x
Contains(s, w) == \E i \in 1..Len(s) : s[i] = w

LowerSeq(s) == [i \in 1..Len(s) |-> Lower(s[i])]

\* sub in s  for strings (contiguous occurrence)
IsSubstring(sub, s) ==
    \E k \in 0..(Len(s) - Len(sub)) : \A i \in 1..Len(sub) : s[k + i] = sub[i]

RECURSIVE RemoveTok(_, _)
\* s.replace(t, '')
RemoveTok(s, t) ==
    IF s = <<>> THEN <<>>
    ELSE IF Head(s) = t THEN RemoveTok(Tail(s), t)
    ELSE <<Head(s)>> \o RemoveTok(Tail(s), t)

RECURSIVE OnlyLetters(_)
\* re.sub(r'[^A-Za-z]', '', s)
OnlyLetters(s) ==
    IF s = <<>> THEN <<>>
    ELSE IF Head(s) \in {"-", "+", "3"} THEN OnlyLetters(Tail(s))
    ELSE <<Head(s)>> \o OnlyLetters(Tail(s))

Prefix(s, n) == SubSeq(s, 1, n)

Suffix(s, n) == SubSeq(s, n, Len(s))

PlusPositions(s) == {i \in 1..Len(s) : s[i] = "+"}

Max(S) == CHOOSE m \in S : \A x \in S : x <= m

Min(S) == CHOOSE m \in S : \A x \in S : m <= x

\* ps_name.split('+')[-1] if '+' in ps_name else ps_name
name_part_of(ps_name) ==
    IF PlusPositions(ps_name) = {} THEN ps_name
    ELSE Suffix(ps_name, Max(PlusPositions(ps_name)) + 1)

\* ps_name.split('+', 1)[-1]
sem_prefixo_of(ps_name) ==
    IF PlusPositions(ps_name) = {} THEN ps_name
    ELSE Suffix(ps_name, Min(PlusPositions(ps_name)) + 1)

\* re.sub(r'[- ]?(Bold|Italic|Regular|Oblique).*$', '', s, flags=re.IGNORECASE)
StripStyleAndRest(s) ==
    LET pos == {i \in 1..Len(s) : s[i] \in StyleWords}
    IN  IF pos = {} THEN s
        ELSE LET i == Min(pos)
             IN  IF i > 1 /\ s[i - 1] = "-" THEN Prefix(s, i - 2) ELSE Prefix(s, i - 1)

\* re.sub(r'[- ]?(Regular|Bold|Italic|Oblique|BoldItalic)$', '', s, flags=re.IGNORECASE)
StripTrailingStyle(s) ==
    LET n == Len(s)
        cut(k) == IF k > 1 /\ s[k - 1] = "-" THEN Prefix(s, k - 2) ELSE Prefix(s, k - 1)
    IN  IF n >= 2 /\ s[n - 1] = "Bold" /\ s[n] = "Italic" THEN cut(n - 1)
        ELSE IF n >= 1 /\ s[n] \in StyleWords THEN cut(n)
        ELSE s

\* re.sub(r'(?<=[a-z])(?=[A-Z])', ' ', s).replace('-', ' ').strip().lower():
\* the words of the normalised search key, in order
family_search_of(ps_name) ==
    LowerSeq(RemoveTok(StripStyleAndRest(name_part_of(ps_name)), "-"))

(* ---------------------------------------------------------------------- *)
(* Ordered dict (file_registry is iterated in insertion order)             *)
(* ---------------------------------------------------------------------- *)
DHas(d, k) == \E i \in 1..Len(d) : d[i][1] = k

DGet(d, k, dflt) ==
    IF DHas(d, k) THEN d[CHOOSE i \in 1..Len(d) : d[i][1] = k][2] ELSE dflt

DPut(d, k, v) ==
    IF DHas(d, k) THEN [i \in 1..Len(d) |-> IF d[i][1] = k THEN <<k, v>> ELSE d[i]]
    ELSE Append(d, <<k, v>>)

(* ---------------------------------------------------------------------- *)
(* Names of the program                                                    *)
(* ---------------------------------------------------------------------- *)
PfxOpenSansBold == <<"ABCDEF", "+", "Open", "Sans", "-", "Bold">>
OpenSansBoldPs == <<"Open", "Sans", "-", "Bold">>
OpenSansItalicPs == <<"Open", "Sans", "-", "Italic">>
TimesPSMT == <<"Times", "New", "Roman", "PSMT">>

\* the font identifiers a document or the secondary extraction can report
FontIds == {PfxOpenSansBold, OpenSansBoldPs, OpenSansItalicPs, TimesPSMT}

UnnamedFont == <<"Unnamed", "-", "T3">>

RobotoCondensed == <<"Roboto", "Condensed">>
RobotoCondensedBold == <<"Roboto", "Condensed", "-", "Bold">>
RobotoCondensedItalic == <<"Roboto", "Condensed", "-", "Italic">>
RobotoStyles == <<RobotoCondensed, RobotoCondensedBold, RobotoCondensedItalic>>

K_default == <<"default">>
K_default_bold == <<"default_bold">>
K_default_italic == <<"default_italic">>

TimesRoman == <<"Times", "-", "Roman">>
TimesBold == <<"Times", "-", "Bold">>
TimesItalic == <<"Times", "-", "Italic">>

\* names insert_text accepts without a font file
Base14 == {TimesRoman, TimesBold, TimesItalic}

\* files of tmp_dir and of ./fonts: <<directory, stem, extension>>
TmpPath(name, ext) == <<"tmp", name, ext>>

LocalPath(key) == <<"fonts", key, "ttf">>

TimesNewRomanRegular == <<"Times", "New", "Roman", "Regular">>

\* the possible contents of ./fonts (keys are file names without extension)
LocalDirs == {{}, {TimesNewRomanRegular}}

OpenSansFamily == <<"Open", "Sans">>

Variants == <<"regular", "bold", "italic", "bolditalic">>

VariantSet == {"regular", "bold", "italic", "bolditalic"}

\* the catalog answers: request failed or no API key (empty), the family with
\* a 700 and an italic file, the family with a 700 file only
Catalogs ==
    { EmptyDict,
      [f \in {OpenSansFamily} |-> {"bold", "italic"}],
      [f \in {OpenSansFamily} |-> {"bold"}] }

\* the variants some catalog of the model offers
OfferedVariants == UNION {UNION {c[f] : f \in DOMAIN c} : c \in Catalogs}

(* ---------------------------------------------------------------------- *)
(* Pure functions of the source                                            *)
(* ---------------------------------------------------------------------- *)
padronizar_nome_fonte(fam_key, variant) ==
    IF variant = "bold" THEN fam_key \o <<"Bold">>
    ELSE IF variant = "italic" THEN fam_key \o <<"Italic">>
    ELSE IF variant = "bolditalic" THEN fam_key \o <<"Bold", "Italic">>
    ELSE fam_key \o <<"Regular">>

\* header in [b'\x00\x01\x00\x00', b'true', b'OTTO'] ; a file's content is
\* abstracted to the class of its first four bytes
is_valid_font_file(disk, path) ==
    path \in DOMAIN disk /\ disk[path] \in {"ttf", "true", "otto"}

registrar_varios_nomes_font_registry(font_registry, ps_name, variant_name) ==
    LET r1 == Put(font_registry, ps_name, variant_name)
        r2 == IF Contains(ps_name, "+")
              THEN Put(r1, sem_prefixo_of(ps_name), variant_name) ELSE r1
        r3 == Put(r2, RemoveTok(ps_name, "-"), variant_name)
    IN  Put(r3, StripTrailingStyle(ps_name), variant_name)

\* 'regular' / 'bold' / 'italic' / 'bolditalic' from substring checks on name_part
style_variant_of(name_part) ==
    IF Contains(name_part, "Bold") /\ (Contains(name_part, "Italic") \/ Contains(name_part, "Oblique"))
    THEN "bolditalic"
    ELSE IF Contains(name_part, "Bold") THEN "bold"
    ELSE IF Contains(name_part, "Italic") \/ Contains(name_part, "Oblique") THEN "italic"
    ELSE "regular"

\* difflib.SequenceMatcher(None, a, b).ratio() in percent, for the search keys
\* and catalog keys of the model (values computed with difflib)
CatalogRatio(search, key) ==
    IF search = key THEN 100
    ELSE IF search = <<"times", "new", "roman", "psmt">> THEN 34
    ELSE 0

\* difflib ratio in percent between a normalised identifier and a local key
LocalRatio(normalized, key) ==
    IF normalized = key THEN 100
    ELSE IF normalized = <<"Times", "New", "Roman", "PSMT">> /\ key = TimesNewRomanRegular THEN 70
    ELSE IF normalized = <<"Open", "Sans", "Bold">> /\ key = TimesNewRomanRegular THEN 25
    ELSE IF normalized = <<"Open", "Sans", "Italic">> /\ key = TimesNewRomanRegular THEN 23
    ELSE IF normalized = <<"ABCDEF", "Open", "Sans", "Bold">> /\ key = TimesNewRomanRegular THEN 21
    ELSE 0

\* google_fonts_lower = {family.lower(): family}; exact hit, else
\* difflib.get_close_matches(family_search, keys, n=1, cutoff=0.5)
match_family(google_fonts, ps_name) ==
    LET search == family_search_of(ps_name)
        exact == {f \in DOMAIN google_fonts : LowerSeq(f) = search}
        close == {f \in DOMAIN google_fonts : CatalogRatio(search, LowerSeq(f)) >= 50}
    IN  IF exact # {} THEN CHOOSE f \in exact : TRUE
        ELSE IF close # {}
             THEN CHOOSE f \in close :
                     \A g \in close : CatalogRatio(search, LowerSeq(g)) <= CatalogRatio(search, LowerSeq(f))
        ELSE None

\* stage 2 of the document loop: the key of local_fonts_map chosen for ps_name,
\* or None (PSMT rule, longest contained key, close match with cutoff 0.8)
match_local(local_keys, ps_name) ==
    LET n == Len(ps_name)
        psmt_key == Prefix(ps_name, n - 1) \o <<"Regular">>
        normalized_ps == OnlyLetters(ps_name)
        matches == {k \in local_keys : IsSubstring(LowerSeq(k), LowerSeq(normalized_ps))}
        close == {k \in local_keys : LocalRatio(normalized_ps, k) >= 80}
    IN  IF n >= 1 /\ Lower(ps_name[n]) = "psmt" /\ psmt_key \in local_keys THEN psmt_key
        ELSE IF matches # {}
             THEN CHOOSE k \in matches : \A m \in matches : StrLen(m) <= StrLen(k)
        ELSE IF close # {}
             THEN CHOOSE k \in close : \A m \in close : LocalRatio(normalized_ps, m) <= LocalRatio(normalized_ps, k)
        ELSE None

\* stage 4 of the document loop
default_handle_for(font_registry, ps_name) ==
    IF Contains(ps_name, "Bold") THEN font_registry[K_default_bold]
    ELSE IF Contains(ps_name, "Italic") \/ Contains(ps_name, "Oblique") THEN font_registry[K_default_italic]
    ELSE font_registry[K_default]

secondary_style_suffix(ps_name) ==
    IF Contains(ps_name, "Bold") /\ (Contains(ps_name, "Italic") \/ Contains(ps_name, "Oblique"))
    THEN <<"-", "Bold", "Italic">>
    ELSE IF Contains(ps_name, "Bold") THEN <<"-", "Bold">>
    ELSE IF Contains(ps_name, "Italic") \/ Contains(ps_name, "Oblique") THEN <<"-", "Italic">>
    ELSE <<>>

secondary_fallback_name_NoDefault(font_registry, ps_name) ==
    Get(font_registry, RobotoCondensed \o secondary_style_suffix(ps_name), None)

\* font_registry.get('RobotoCondensed' + style_suffix) or font_registry.get('default')
secondary_fallback_name(font_registry, ps_name) ==
    Or(Get(font_registry, RobotoCondensed \o secondary_style_suffix(ps_name), None),
       Get(font_registry, K_default, None))

(* ---------------------------------------------------------------------- *)
(* Style lookup (closure of main, used at measurement and placement)       *)
(* ---------------------------------------------------------------------- *)
NoPath == <<"none", <<>>, "">>

\* suf.lower() in nome.lower()
HasSuffixWord(nome, suf) ==
    CASE suf = "bolditalic" -> IsSubstring(<<"bold", "italic">>, LowerSeq(nome))
      [] suf = "boldoblique" -> IsSubstring(<<"bold", "oblique">>, LowerSeq(nome))
      [] suf = "mt" -> Contains(LowerSeq(nome), "psmt")
      [] suf = "" -> TRUE
      [] OTHER -> Contains(LowerSeq(nome), suf)

sufixos(estilo) ==
    CASE estilo = "bold" -> <<"bold">>
      [] estilo = "italic" -> <<"italic", "oblique">>
      [] estilo = "bolditalic" -> <<"bolditalic", "boldoblique">>
      [] estilo = "normal" -> <<"regular", "mt", "psmt", "">>
      [] OTHER -> <<>>

buscar_variante_local(font_registry, file_registry, base, estilo) ==
    LET n == Len(base)
        f1 == IF n >= 1 /\ Lower(base[n]) = "psmt" THEN Prefix(base, n - 1) ELSE base
        familia == LowerSeq(RemoveTok(RemoveTok(f1, "+"), "-"))
        sufs == sufixos(estilo)
        hit(i, j) == familia # <<>> /\ IsSubstring(familia, LowerSeq(file_registry[j][1]))
                     /\ HasSuffixWord(file_registry[j][1], sufs[i])
        hits == {ij \in (1..Len(sufs)) \X (1..Len(file_registry)) : hit(ij[1], ij[2])}
    IN  IF hits = {} THEN None
        ELSE LET first == CHOOSE ij \in hits :
                             \A o \in hits : ij[1] < o[1] \/ (ij[1] = o[1] /\ ij[2] <= o[2])
             IN  file_registry[first[2]][1]

\* re.sub(r'(Bold|Italic|BoldItalic)$', 'Regular', base)
fam_reg_of(base) ==
    LET n == Len(base)
    IN  IF n >= 2 /\ base[n - 1] = "Bold" /\ base[n] = "Italic" THEN Prefix(base, n - 2) \o <<"Regular">>
        ELSE IF n >= 1 /\ base[n] \in {"Bold", "Italic"} THEN Prefix(base, n - 1) \o <<"Regular">>
        ELSE base

\* re.sub(r'(?i)(?:[- ]?Regular)$', '', base)
cleaned_raw_of(base) ==
    LET n == Len(base)
    IN  IF n >= 1 /\ base[n] = "Regular"
        THEN (IF n > 1 /\ base[n - 1] = "-" THEN Prefix(base, n - 2) ELSE Prefix(base, n - 1))
        ELSE base

style_candidate(base, style) ==
    LET isB == Contains(base, "Bold")
        isI == Contains(base, "Italic") \/ Contains(base, "Oblique")
        bare == RemoveTok(base, "Regular")
    IN  CASE style = "bold" -> IF isB THEN base ELSE bare \o <<"Bold">>
          [] style = "italic" -> IF isI THEN base ELSE bare \o <<"Italic">>
          [] OTHER -> IF isB /\ isI THEN base ELSE bare \o <<"Bold", "Italic">>

get_font_for_style_ExactOnly(font_registry, file_registry, base_raw, style) ==
    Get(font_registry, style_candidate(Get(font_registry, base_raw, base_raw), style), None)

\* lines 473-561
get_font_for_style(font_registry, file_registry, base_raw, style) ==
    LET base == Get(font_registry, base_raw, base_raw)
        variante == buscar_variante_local(font_registry, file_registry, base,
                                          IF style \in {"normal", "bold", "italic"} THEN style ELSE "bolditalic")
        fam_reg == fam_reg_of(base)
    IN  IF style = "normal"
        THEN IF base \in DOMAIN font_registry THEN font_registry[base]
             ELSE IF cleaned_raw_of(base) \in DOMAIN font_registry THEN font_registry[cleaned_raw_of(base)]
             ELSE IF fam_reg \in DOMAIN font_registry THEN font_registry[fam_reg]
             ELSE IF variante # None THEN variante
             ELSE Get(font_registry, K_default, None)
        ELSE LET candidate == style_candidate(base, style)
             IN  IF candidate \in DOMAIN font_registry THEN font_registry[candidate]
                 ELSE IF variante # None THEN variante
                 ELSE IF fam_reg \in DOMAIN font_registry THEN font_registry[fam_reg]
                 ELSE IF style = "bold" THEN Get(font_registry, K_default_bold, None)
                 ELSE IF style = "italic" THEN Get(font_registry, K_default_italic, None)
                 ELSE Or(Get(font_registry, K_default_bold, None), Get(font_registry, K_default_italic, None))

\* the tag pair wrapped around a span's text, then parsed back as its style
tag_style_of(raw_font) ==
    IF Contains(raw_font, "Bold") /\ (Contains(raw_font, "Italic") \/ Contains(raw_font, "Oblique"))
    THEN "bolditalic"
    ELSE IF Contains(raw_font, "Bold") THEN "bold"
    ELSE IF Contains(raw_font, "Italic") \/ Contains(raw_font, "Oblique") THEN "italic"
    ELSE "normal"

(* ---------------------------------------------------------------------- *)
(* State                                                                   *)
(* ---------------------------------------------------------------------- *)
VARIABLES
    pc,                     \* position in main()
    font_info_map,          \* ps_names of the document, in dict order
    local_fonts_map,        \* keys of ./fonts (path is LocalPath(key))
    google_fonts,           \* family -> offered variant files
    font_registry,          \* name -> registered font name
    file_registry,          \* name -> font file path (insertion ordered)
    family_variants_cache,  \* families whose variants were fetched by the document loop
    disk,                   \* existing font files -> class of their leading bytes
    requests,               \* variant name -> number of download requests issued
    doc_idx,                \* index of the ps_name being processed
    fonte_registrada,       \* flag of the current iteration
    stage_log,              \* per document font: stages attempted, stages that wrote its entry
    page_no,                \* current page (1-based)
    raw_spans,              \* spans of the current page as get_text('dict') reports them
    spans,                  \* spans of the current page
    fontes_pdfminer,        \* fonts found by secondary extraction still to be processed
    seen_pdfminer,          \* fonts found by secondary extraction whose processing is complete
    page_fonts,             \* font names inserted into the current output page
    span_idx,               \* next span to translate and place
    placed,                 \* text placements of the current page
    rpc,                    \* position in the reflow of one block (lines 647-732)
    segments,               \* the block's translated segments
    block_width,            \* bx1 - bx0 of the block
    original_size,          \* block['size']
    original_lines,         \* len(line_clusters)
    fontsize,               \* font size chosen so far
    size_shrink,            \* size of the last measurement of the shrink loop
    full_width,             \* last measured width of the whole text
    lines,                  \* lines of words chosen so far
    strategy,               \* which of the reflow strategies produced lines
    tpc,                    \* position in the tagging and parsing of one block (596-646)
    block_spans,            \* block['spans']
    marked_text,            \* the tagged string sent for translation
    translated_xml,         \* result.text
    last_end,               \* end of the last tag match
    parsed,                 \* the StyledSegments parsed so far (the code's segments)
    gpc,                    \* position in the grouping of a page's spans (450-471, 563-595)
    blocks,                 \* the blocks built so far
    align,                  \* block['alignment'] of the block being placed
    bx0,                    \* left edge of the block being placed
    drawn                   \* the insert_text calls of the block's placement (733-763)

vars == <<pc, font_info_map, local_fonts_map, google_fonts, font_registry, file_registry,
          family_variants_cache, disk, requests, doc_idx, fonte_registrada, stage_log,
          page_no, raw_spans, spans, fontes_pdfminer, seen_pdfminer, page_fonts, span_idx,
          placed, rpc, segments, block_width, original_size, original_lines, fontsize,
          size_shrink, full_width, lines, strategy, tpc, block_spans, marked_text,
          translated_xml, last_end, parsed, gpc, blocks, align, bx0, drawn>>

docVars == <<font_info_map, local_fonts_map>>

reflowVars == <<rpc, segments, block_width, original_size, original_lines, fontsize,
                size_shrink, full_width, lines, strategy>>

\* variables of the per-block text pipeline, which the font pipeline never touches
textVars == <<tpc, block_spans, marked_text, translated_xml, last_end, parsed>>

\* variables of the grouping of spans into blocks
groupVars == <<gpc, blocks>>

\* variables of the placement of a block's lines
placeVars == <<align, bx0, drawn>>

blockVars == <<reflowVars, textVars, groupVars, placeVars>>

pageVars == <<page_no, raw_spans, spans, fontes_pdfminer, seen_pdfminer, page_fonts, span_idx, placed>>

Range(q) == {q[i] : i \in 1..Len(q)}

RECURSIVE DistinctSeqs(_)
\* sequences of distinct font identifiers of length at most n
DistinctSeqs(n) ==
    IF n = 0 THEN {<<>>}
    ELSE LET shorter == DistinctSeqs(n - 1)
         IN  shorter \cup {Append(qf[1], qf[2]) :
                             qf \in {x \in shorter \X FontIds : x[2] \notin Range(x[1])}}

DocFontLists == DistinctSeqs(MaxDocFonts)

\* the directory tempfile.mkdtemp creates at line 70
TmpDir == <<"tmp", <<>>, "dir">>

\* no block is being reflowed
ReflowIdle ==
    /\ rpc = "idle"
    /\ segments = <<>>
    /\ block_width = 0
    /\ original_size = 0
    /\ original_lines = 0
    /\ fontsize = 0
    /\ size_shrink = 0
    /\ full_width = 0
    /\ lines = <<>>
    /\ strategy = "none"

\* no block is being tagged or parsed
TextIdle ==
    /\ tpc = "idle"
    /\ block_spans = <<>>
    /\ marked_text = <<>>
    /\ translated_xml = <<>>
    /\ last_end = 0
    /\ parsed = <<>>

\* no page is being grouped
GroupIdle ==
    /\ gpc = "idle"
    /\ blocks = <<>>

\* no block is being placed
PlaceIdle ==
    /\ align = "none"
    /\ bx0 = 0
    /\ drawn = <<>>

Init ==
    /\ GroupIdle
    /\ PlaceIdle
    /\ ReflowIdle
    /\ TextIdle
    /\ pc = "open"
    /\ font_info_map \in DocFontLists
    /\ local_fonts_map \in LocalDirs
    /\ google_fonts = EmptyDict
    /\ font_registry = EmptyDict
    /\ file_registry = <<>>
    /\ family_variants_cache = {}
    /\ disk = [k \in {LocalPath(key) : key \in local_fonts_map} \cup {TmpDir} |->
                  IF k = TmpDir THEN "dir" ELSE "ttf"]
    /\ requests = EmptyDict
    /\ doc_idx = 1
    /\ fonte_registrada = FALSE
    /\ stage_log = <<>>
    /\ page_no = 1
    /\ raw_spans = <<>>
    /\ spans = <<>>
    /\ fontes_pdfminer = {}
    /\ seen_pdfminer = {}
    /\ page_fonts = {}
    /\ span_idx = 1
    /\ placed = <<>>

\* the font pipeline at rest: the state the specifications of the per-block
\* functions keep it in
MainIdle ==
    /\ pc = "idle"
    /\ font_info_map = <<>>
    /\ local_fonts_map = {}
    /\ google_fonts = EmptyDict
    /\ font_registry = EmptyDict
    /\ file_registry = <<>>
    /\ family_variants_cache = {}
    /\ disk = <<>>
    /\ requests = EmptyDict
    /\ doc_idx = 1
    /\ fonte_registrada = FALSE
    /\ stage_log = <<>>
    /\ page_no = 1
    /\ raw_spans = <<>>
    /\ spans = <<>>
    /\ fontes_pdfminer = {}
    /\ seen_pdfminer = {}
    /\ page_fonts = {}
    /\ span_idx = 1
    /\ placed = <<>>

mainVars == <<pc, docVars, google_fonts, font_registry, file_registry, family_variants_cache,
              disk, requests, doc_idx, fonte_registrada, stage_log, pageVars>>

outsideReflow == <<mainVars, textVars, groupVars, placeVars>>

outsideText == <<mainVars, reflowVars, groupVars, placeVars>>

outsideGroup == <<mainVars, reflowVars, textVars, placeVars>>

(* ---------------------------------------------------------------------- *)
(* Opening the documents                                                   *)
(* ---------------------------------------------------------------------- *)
\* lines 87-92: strip_text_from_pdf writes no_text.pdf into the temporary
\* directory, then the input and the stripped copy are opened; pikepdf.open,
\* pdf.save and fitz.open raise on an unreadable input and nothing catches it
OpenDocument ==
    /\ pc = "open"
    /\ \E opened \in BOOLEAN :
         IF opened
         THEN /\ disk' = [p \in (DOMAIN disk) \cup {TmpPath(<<"no_text">>, "pdf")} |->
                            IF p \in DOMAIN disk THEN disk[p] ELSE "pdf"]
              /\ pc' = "defaults"
         ELSE /\ disk' = disk
              /\ pc' = "crashed"
    /\ UNCHANGED <<docVars, blockVars, google_fonts, font_registry, file_registry, family_variants_cache,
                   requests, doc_idx, fonte_registrada, stage_log, pageVars>>

(* ---------------------------------------------------------------------- *)
(* Default handles and catalog                                             *)
(* ---------------------------------------------------------------------- *)
\* which of the three Roboto Condensed files get downloaded: none, the regular
\* one only, all three
RobotoOutcomes == {{}, {1}, {1, 2, 3}}

\* what r.content holds when the three requests answer 200: font data, or a
\* body that is not a font (raise_for_status only looks at the status code)
RobotoBodies(ok) == IF ok = {1, 2, 3} THEN {"ttf", "html"} ELSE {"ttf"}

\* download_and_prepare_roboto_condensed_fonts, then the three default keys
PrepareDefaults ==
    /\ pc = "defaults"
    /\ \E ok \in RobotoOutcomes : \E body \in RobotoBodies(ok) :
         LET got == {RobotoStyles[i] : i \in ok}
             reg1 == [n \in got |-> n]
         IN  /\ disk' = [p \in (DOMAIN disk) \cup {TmpPath(n, "ttf") : n \in got} |->
                            IF p \in DOMAIN disk THEN disk[p] ELSE body]
             /\ file_registry' = [i \in 1..Cardinality(ok) |->
                                    LET k == CHOOSE k \in ok : Cardinality({m \in ok : m < k}) = i - 1
                                    IN  <<RobotoStyles[k], TmpPath(RobotoStyles[k], "ttf")>>]
             /\ font_registry' =
                   Put(Put(Put(reg1, K_default, Get(reg1, RobotoCondensed, TimesRoman)),
                           K_default_bold, Get(reg1, RobotoCondensedBold, TimesBold)),
                       K_default_italic, Get(reg1, RobotoCondensedItalic, TimesItalic))
    /\ pc' = "catalog"
    /\ UNCHANGED <<docVars, blockVars, google_fonts, family_variants_cache, requests, doc_idx,
                   fonte_registrada, stage_log, pageVars>>

AfterDocLoop == IF MaxPages >= 1 THEN "page_extract" ELSE "save"

LoadCatalog ==
    /\ pc = "catalog"
    /\ google_fonts' \in Catalogs
    /\ pc' = IF Len(font_info_map) >= 1 THEN "embedded" ELSE AfterDocLoop
    /\ UNCHANGED <<docVars, blockVars, font_registry, file_registry, family_variants_cache, disk,
                   requests, doc_idx, fonte_registrada, stage_log, pageVars>>

(* ---------------------------------------------------------------------- *)
(* Variant download loop (same code in the document loop and per page)     *)
(* ---------------------------------------------------------------------- *)
RECURSIVE download_variants(_, _, _, _, _)
\* st = [disk, file_registry, font_registry, requests]; out[v] is the outcome
\* of the request for variant v should one be issued
download_variants(i, fam_key, offered, out, st) ==
    IF i > Len(Variants) THEN st
    ELSE LET v == Variants[i]
             vn == padronizar_nome_fonte(fam_key, v)
             path == TmpPath(vn, "ttf")
             need == path \notin DOMAIN st.disk
             st2 == [disk |-> IF need /\ out[v] = "ok" THEN Put(st.disk, path, "ttf") ELSE st.disk,
                     file_registry |-> DPut(st.file_registry, vn, path),
                     font_registry |-> Put(st.font_registry, vn, vn),
                     requests |-> IF need THEN Put(st.requests, vn, Get(st.requests, vn, 0) + 1)
                                  ELSE st.requests]
         IN  download_variants(i + 1, fam_key, offered, out,
                               IF v \in offered THEN st2 ELSE st)

CurState == [disk |-> disk, file_registry |-> file_registry,
             font_registry |-> font_registry, requests |-> requests]

Outcomes == [OfferedVariants -> {"ok", "fail"}]

\* family.replace(' ', ''): a family is the sequence of its space-separated
\* words, its key the same words without the separators
fam_key_of(family) == family

\* lines 224-268 / 374-416: fetch the variants of the matched family and map
\* ps_name to the variant of its apparent style.  cached: the document loop
\* skips the whole block for a family already in family_variants_cache.
remote_stage(catalog, ps_name, out, st, cached) ==
    LET family == match_family(catalog, ps_name)
    IN  IF family = None \/ cached
        THEN [st |-> st, registered |-> FALSE, wrote |-> FALSE]
        ELSE LET fam_key == fam_key_of(family)
                 st2 == download_variants(1, fam_key, catalog[family], out, st)
                 variant_name == padronizar_nome_fonte(fam_key, style_variant_of(name_part_of(ps_name)))
                 hit == DHas(st2.file_registry, variant_name)
                 st3 == [st2 EXCEPT !.font_registry =
                            registrar_varios_nomes_font_registry(st2.font_registry, ps_name, variant_name)]
             IN  [st |-> IF hit THEN st3 ELSE st2,
                  registered |-> hit,
                  wrote |-> hit \/ \E v \in catalog[family] : padronizar_nome_fonte(fam_key, v) = ps_name]

(* ---------------------------------------------------------------------- *)
(* Document-level registration loop (one iteration = four stages)          *)
(* ---------------------------------------------------------------------- *)
CurPs == font_info_map[doc_idx]

\* doc.extract_font(xref): font program with a TrueType header (ext ttf), font
\* program of another format (ext pfa), or no extractable data / exception
ExtractOutcomes == {"ttf", "type1", "none"}

Logged(stage, attempted, wrote) ==
    LET cur == IF Len(stage_log) >= doc_idx THEN stage_log[doc_idx]
               ELSE [attempted |-> <<>>, writers |-> <<>>]
        new == [attempted |-> IF attempted THEN Append(cur.attempted, stage) ELSE cur.attempted,
                writers |-> IF wrote THEN Append(cur.writers, stage) ELSE cur.writers]
    IN  IF Len(stage_log) >= doc_idx THEN [stage_log EXCEPT ![doc_idx] = new]
        ELSE Append(stage_log, new)

\* stage 1, lines 148-167
ExtractEmbedded ==
    /\ pc = "embedded"
    /\ \E info \in ExtractOutcomes :
         IF info # "none"
         THEN LET font_path == TmpPath(CurPs, IF info = "ttf" THEN "ttf" ELSE "pfa")
              IN  /\ disk' = Put(disk, font_path, info)
                  /\ font_registry' = Put(font_registry, CurPs, CurPs)
                  /\ file_registry' = DPut(file_registry, CurPs, font_path)
                  /\ fonte_registrada' = TRUE
                  /\ stage_log' = Logged("embedded", TRUE, TRUE)
         ELSE /\ fonte_registrada' = FALSE
              /\ stage_log' = Logged("embedded", TRUE, FALSE)
              /\ UNCHANGED <<disk, font_registry, file_registry>>
    /\ pc' = "local"
    /\ UNCHANGED <<docVars, blockVars, google_fonts, family_variants_cache, requests, doc_idx, pageVars>>

\* line 169
local_stage_guard(registrada) == ~registrada

\* stage 2, lines 169-200
LocalMatch ==
    /\ pc = "local"
    /\ LET chosen == match_local(local_fonts_map, CurPs)
           go == local_stage_guard(fonte_registrada)
       IN  IF go /\ chosen # None
           THEN /\ file_registry' = DPut(file_registry, CurPs, LocalPath(chosen))
                /\ font_registry' = Put(font_registry, CurPs, CurPs)
                /\ fonte_registrada' = TRUE
                /\ stage_log' = Logged("local", TRUE, TRUE)
           ELSE /\ stage_log' = Logged("local", go, FALSE)
                /\ UNCHANGED <<file_registry, font_registry, fonte_registrada>>
    /\ pc' = "remote"
    /\ UNCHANGED <<docVars, blockVars, google_fonts, family_variants_cache, disk, requests, doc_idx, pageVars>>

\* line 202
remote_stage_guard(registrada, catalog) == ~registrada /\ DOMAIN catalog # {}

\* stage 3, lines 202-268
RemoteMatch ==
    /\ pc = "remote"
    /\ IF remote_stage_guard(fonte_registrada, google_fonts)
       THEN \E out \in Outcomes :
              LET family == match_family(google_fonts, CurPs)
                  r == remote_stage(google_fonts, CurPs, out, CurState,
                                    family \in family_variants_cache)
              IN  /\ disk' = r.st.disk
                  /\ file_registry' = r.st.file_registry
                  /\ font_registry' = r.st.font_registry
                  /\ requests' = r.st.requests
                  /\ family_variants_cache' =
                        IF family # None THEN family_variants_cache \cup {family}
                        ELSE family_variants_cache
                  /\ fonte_registrada' = r.registered
                  /\ stage_log' = Logged("remote", TRUE, r.wrote)
       ELSE /\ stage_log' = Logged("remote", FALSE, FALSE)
            /\ UNCHANGED <<disk, file_registry, font_registry, requests,
                           family_variants_cache, fonte_registrada>>
    /\ pc' = "default"
    /\ UNCHANGED <<docVars, blockVars, google_fonts, doc_idx, pageVars>>

default_stage_guard_Always(registrada) == TRUE

\* line 270
default_stage_guard(registrada) == ~registrada

\* stage 4, lines 269-277, and the step to the next ps_name
DefaultFallback ==
    /\ pc = "default"
    /\ IF default_stage_guard(fonte_registrada)
       THEN /\ font_registry' = Put(font_registry, CurPs, default_handle_for(font_registry, CurPs))
            /\ stage_log' = Logged("default", TRUE, TRUE)
       ELSE /\ stage_log' = Logged("default", FALSE, FALSE)
            /\ UNCHANGED font_registry
    /\ doc_idx' = doc_idx + 1
    /\ pc' = IF doc_idx < Len(font_info_map) THEN "embedded" ELSE AfterDocLoop
    /\ UNCHANGED <<docVars, blockVars, google_fonts, file_registry, family_variants_cache, disk,
                   requests, fonte_registrada, pageVars>>

(* ---------------------------------------------------------------------- *)
(* Page loop                                                               *)
(* ---------------------------------------------------------------------- *)
\* font names get_text('dict') can report for a span: a font of the document,
\* with or without its subset prefix
SpanFontNames == Range(font_info_map) \cup {sem_prefixo_of(f) : f \in Range(font_info_map)}

\* font names the secondary extraction can recover: the identifiers above, or
\* a name that is the stem of a file of ./fonts
MinerFontIds == FontIds \cup {TimesNewRomanRegular}

\* reconstruir_spans_pdfminer: no span, or one span carrying a recovered font
MinerResults == {<<>>} \cup {<<g>> : g \in MinerFontIds}

RawSpans == [kind : {"named"}, font : SpanFontNames, miner : {<<>>}]
            \cup [kind : {"unnamed"}, font : {UnnamedFont}, miner : MinerResults]

RawSpanLists == UNION {[1..n -> RawSpans] : n \in 0..MaxSpans}

RECURSIVE collect_spans(_, _)
\* lines 294-337: the spans list built from the raw spans i..end
collect_spans(raw, i) ==
    IF i > Len(raw) THEN <<>>
    ELSE LET r == raw[i]
             here == IF r.kind = "named" THEN <<[src |-> i, raw_font |-> r.font, font |-> r.font]>>
                     ELSE [k \in 1..Len(r.miner) |->
                              [src |-> i, raw_font |-> r.miner[k], font |-> r.miner[k]]]
         IN  here \o collect_spans(raw, i + 1)

\* lines 283-341: new page, span extraction with secondary extraction for
\* Unnamed-* runs, then renaming of span fonts to their registered names
ExtractSpans ==
    /\ pc = "page_extract"
    /\ \E raw \in RawSpanLists :
         LET collected == collect_spans(raw, 1)
         IN  /\ spans' = [i \in 1..Len(collected) |->
                            [collected[i] EXCEPT !.font = Get(font_registry, @, @)]]
             /\ fontes_pdfminer' = UNION {Range(raw[i].miner) : i \in 1..Len(raw)}
             /\ raw_spans' = raw
    /\ page_fonts' = {}
    /\ placed' = <<>>
    /\ span_idx' = 1
    /\ pc' = "page_secondary"
    /\ UNCHANGED <<docVars, blockVars, google_fonts, font_registry, file_registry, family_variants_cache,
                   disk, requests, doc_idx, fonte_registrada, stage_log, page_no, seen_pdfminer>>

\* lines 343-428: one iteration of the loop over fontes_pdfminer
RegisterSecondary ==
    /\ pc = "page_secondary"
    /\ \E ps_name \in fontes_pdfminer, out \in Outcomes :
         LET isLocal == ps_name \in local_fonts_map
             st1 == IF isLocal
                    THEN [CurState EXCEPT
                            !.file_registry = DPut(file_registry, ps_name, LocalPath(ps_name)),
                            !.font_registry = registrar_varios_nomes_font_registry(font_registry, ps_name, ps_name)]
                    ELSE CurState
             r == IF remote_stage_guard(isLocal, google_fonts)
                  THEN remote_stage(google_fonts, ps_name, out, st1, FALSE)
                  ELSE [st |-> st1, registered |-> isLocal, wrote |-> isLocal]
             reg == r.st.font_registry
         IN  /\ font_registry' = IF r.registered THEN reg
                                 ELSE Put(reg, ps_name, secondary_fallback_name(reg, ps_name))
             /\ file_registry' = r.st.file_registry
             /\ disk' = r.st.disk
             /\ requests' = r.st.requests
             /\ fonte_registrada' = r.registered
             /\ fontes_pdfminer' = fontes_pdfminer \ {ps_name}
             /\ seen_pdfminer' = seen_pdfminer \cup {ps_name}
    /\ UNCHANGED <<pc, docVars, blockVars, google_fonts, family_variants_cache, doc_idx, stage_log,
                   page_no, raw_spans, spans, page_fonts, span_idx, placed>>

\* lines 429-444: insert every registered font whose file exists and has a
\* valid header into the new page
InsertPageFonts ==
    /\ pc = "page_secondary"
    /\ fontes_pdfminer = {}
    /\ page_fonts' = {file_registry[i][1] : i \in
                        {j \in 1..Len(file_registry) : is_valid_font_file(disk, file_registry[j][2])}}
    /\ pc' = "page_place"
    /\ UNCHANGED <<docVars, blockVars, google_fonts, font_registry, file_registry, family_variants_cache,
                   disk, requests, doc_idx, fonte_registrada, stage_log, page_no, raw_spans,
                   spans, fontes_pdfminer, seen_pdfminer, span_idx, placed>>

\* insert_text(fontname=...) succeeds for a font inserted into the page or a
\* built-in font name; otherwise it raises
can_insert_text(fonts_of_page, fontname) == fontname \in fonts_of_page \cup Base14

\* lines 563-763 for the block made of spans[span_idx]: tag by font name,
\* translate (tags preserved), pick the font of the segment's style, place it.
\* translate_text (616-623) is called outside any try: when it raises, main()
\* ends there.  The retry of insert_text at 761 is outside any try as well.
PlaceSpan ==
    /\ pc = "page_place"
    /\ span_idx <= Len(spans)
    /\ \E translated \in BOOLEAN :
         LET sp == spans[span_idx]
             style == tag_style_of(sp.font)
             fontname == get_font_for_style(font_registry, file_registry, sp.font, style)
             font_path == DGet(file_registry, fontname, NoPath)
             dflt == Get(font_registry, K_default, None)
             seg(how, name) == [span |-> span_idx, style |-> style, resolved |-> fontname,
                                how |-> how, fontname |-> name]
         IN  IF ~translated
             THEN /\ placed' = placed
                  /\ span_idx' = span_idx
                  /\ pc' = "crashed"
             ELSE /\ span_idx' = span_idx + 1
                  /\ IF font_path \in DOMAIN disk /\ ~is_valid_font_file(disk, font_path)
                     THEN /\ placed' = Append(placed, seg("omitted", None))
                          /\ pc' = pc
                     ELSE IF can_insert_text(page_fonts, fontname)
                     THEN /\ placed' = Append(placed, seg("resolved", fontname))
                          /\ pc' = pc
                     ELSE IF can_insert_text(page_fonts, dflt)
                     THEN /\ placed' = Append(placed, seg("fallback", dflt))
                          /\ pc' = pc
                     ELSE /\ placed' = Append(placed, seg("failed", None))
                          /\ pc' = "crashed"
    /\ UNCHANGED <<docVars, blockVars, google_fonts, font_registry, file_registry, family_variants_cache,
                   disk, requests, doc_idx, fonte_registrada, stage_log, page_no, raw_spans,
                   spans, fontes_pdfminer, seen_pdfminer, page_fonts>>

\* line 764 and the next iteration of the page loop
EndPage ==
    /\ pc = "page_place"
    /\ span_idx > Len(spans)
    /\ IF page_no < MaxPages
       THEN /\ page_no' = page_no + 1
            /\ pc' = "page_extract"
       ELSE /\ page_no' = page_no
            /\ pc' = "save"
    /\ UNCHANGED <<docVars, blockVars, google_fonts, font_registry, file_registry, family_variants_cache,
                   disk, requests, doc_idx, fonte_registrada, stage_log, raw_spans, spans,
                   fontes_pdfminer, seen_pdfminer, page_fonts, span_idx, placed>>

\* lines 765-770: save, close, shutil.rmtree(tmp_dir)
Finish ==
    /\ pc = "save"
    /\ disk' = [p \in {q \in DOMAIN disk : q[1] # "tmp"} |-> disk[p]]
    /\ pc' = "done"
    /\ UNCHANGED <<docVars, blockVars, google_fonts, font_registry, file_registry, family_variants_cache,
                   requests, doc_idx, fonte_registrada, stage_log, pageVars>>

Next ==
    \/ OpenDocument
    \/ PrepareDefaults
    \/ LoadCatalog
    \/ ExtractEmbedded
    \/ LocalMatch
    \/ RemoteMatch
    \/ DefaultFallback
    \/ ExtractSpans
    \/ RegisterSecondary
    \/ InsertPageFonts
    \/ PlaceSpan
    \/ EndPage
    \/ Finish

Spec == Init /\ [][Next]_vars

\* main() up to the end of the document-level registration loop (line 277)
NextDocLoop ==
    \/ OpenDocument
    \/ PrepareDefaults
    \/ LoadCatalog
    \/ ExtractEmbedded
    \/ LocalMatch
    \/ RemoteMatch
    \/ DefaultFallback

SpecDocLoop == Init /\ [][NextDocLoop]_vars

TypeOK ==
    /\ pc \in {"idle", "open", "defaults", "catalog", "embedded", "local", "remote", "default", "page_extract",
               "page_secondary", "page_place", "save", "done", "crashed"}
    /\ fonte_registrada \in BOOLEAN
    /\ \A k \in DOMAIN font_registry : font_registry[k] # <<>>

(* ---------------------------------------------------------------------- *)
(* Text reflow of one block (lines 647-732)                                *)
(* ---------------------------------------------------------------------- *)
\* Font sizes and widths are fixed-point numbers with four decimals: Pt is 1.0.
\* text_length(txt, fs) is fs times the sum of the glyph advances of txt; the
\* advance of a word is given in tenths of the em.
Pt == 10000

MaxSegments == 2
MaxWords == 2

WordAdvances == {10, 35}

\* advance of the ' ' that wrap_segments keeps after every word but the last
SpaceAdvance == 3

RECURSIVE SeqsUpTo(_, _)
SeqsUpTo(S, n) ==
    IF n = 0 THEN {<<>>}
    ELSE SeqsUpTo(S, n - 1) \cup {Append(q, x) : q \in [1..(n - 1) -> S], x \in S}

\* a segment's text as the advances of the words seg['text'].split(' ') gives
SegmentTexts == SeqsUpTo(WordAdvances, MaxWords) \ {<<>>}

SegmentLists == SeqsUpTo(SegmentTexts, MaxSegments)

BlockWidths == {40 * Pt, 60 * Pt, 120 * Pt}

OriginalSizes == {12 * Pt, 16 * Pt}

LineCounts == {1, 2}

\* line 673: min_fontsize=10
min_fontsize == 10 * Pt

\* line 730: a block is a heading when original_size > 14
heading_size == 14 * Pt

\* fs *= 0.95
Shrunk(fs) == (fs * 95) \div 100

RECURSIVE SumAdv(_, _, _)
SumAdv(words, from, to) ==
    IF from > to THEN 0 ELSE words[from] + SumAdv(words, from + 1, to)

\* an emitted piece of text: words from..to of segment seg, each followed by
\* its ' ' except the last word of the segment
Advance(item) ==
    LET words == segments[item.seg]
        spaces == (item.to - item.from) + (IF item.to < Len(words) THEN 1 ELSE 0)
    IN  SumAdv(words, item.from, item.to) + spaces * SpaceAdvance

\* lines 654-663: font.text_length(txt, fs)
measure(item, fs) == (Advance(item) * fs) \div 10

RECURSIVE SumWidth(_, _, _)
SumWidth(items, i, fs) ==
    IF i > Len(items) THEN 0 ELSE measure(items[i], fs) + SumWidth(items, i + 1, fs)

\* the segments as they are emitted without wrapping (lines 683-686, 699-702)
WholeSegments == [i \in 1..Len(segments) |-> [seg |-> i, from |-> 1, to |-> Len(segments[i])]]

\* lines 667 and 691: width of the whole text at size fs
FullWidthAt(fs) == SumWidth(WholeSegments, 1, fs)

RECURSIVE Words(_)
\* the words of segments i.. in the order wrap_segments visits them
Words(i) ==
    IF i > Len(segments) THEN <<>>
    ELSE [k \in 1..Len(segments[i]) |-> [seg |-> i, from |-> k, to |-> k]] \o Words(i + 1)

RECURSIVE wrap_from_DropLine(_, _, _, _, _, _)
wrap_from_DropLine(words, i, fs, lines_tmp, current_line, current_width) ==
    IF i > Len(words)
    THEN IF current_line # <<>> THEN Append(lines_tmp, current_line) ELSE lines_tmp
    ELSE LET w == measure(words[i], fs)
         IN  IF current_width + w <= block_width \/ current_line = <<>>
             THEN wrap_from_DropLine(words, i + 1, fs, lines_tmp, Append(current_line, words[i]),
                                     current_width + w)
             ELSE wrap_from_DropLine(words, i + 1, fs, lines_tmp, <<words[i]>>, w)

RECURSIVE wrap_from(_, _, _, _, _, _)
\* lines 712-725: the loop of wrap_segments from word i on
wrap_from(words, i, fs, lines_tmp, current_line, current_width) ==
    IF i > Len(words)
    THEN IF current_line # <<>> THEN Append(lines_tmp, current_line) ELSE lines_tmp
    ELSE LET w == measure(words[i], fs)
         IN  IF current_width + w <= block_width \/ current_line = <<>>
             THEN wrap_from(words, i + 1, fs, lines_tmp, Append(current_line, words[i]),
                            current_width + w)
             ELSE wrap_from(words, i + 1, fs, Append(lines_tmp, current_line), <<words[i]>>, w)

wrap_segments_OneLine(fs) == <<Words(1)>>

\* lines 708-728
wrap_segments(fs) == wrap_from(Words(1), 1, fs, <<>>, <<>>, 0)

\* the reflow is given a block and the segments of its translation
InitReflow ==
    /\ MainIdle
    /\ GroupIdle
    /\ PlaceIdle
    /\ TextIdle
    /\ rpc = "measure"
    /\ segments \in SegmentLists
    /\ block_width \in BlockWidths
    /\ original_size \in OriginalSizes
    /\ original_lines \in LineCounts
    /\ fontsize = original_size
    /\ size_shrink = 0
    /\ full_width = 0
    /\ lines = <<>>
    /\ strategy = "none"

\* lines 664-668 and 680-688: measure at the original size; one line if it fits
MeasureFull ==
    /\ rpc = "measure"
    /\ full_width' = FullWidthAt(fontsize)
    /\ IF full_width' <= block_width
       THEN /\ lines' = <<WholeSegments>>
            /\ strategy' = "no_reflow"
            /\ rpc' = "emit"
            /\ size_shrink' = size_shrink
       ELSE /\ size_shrink' = fontsize
            /\ rpc' = "shrink"
            /\ UNCHANGED <<lines, strategy>>
    /\ UNCHANGED <<outsideReflow, segments, block_width, original_size, original_lines, fontsize>>

\* line 689
min_size == (original_size * 9) \div 10

\* line 690: the condition of the shrink loop
shrink_loop_guard(size) == size > min_size

\* lines 690-695: one iteration of the shrink loop
ShrinkStep ==
    /\ rpc = "shrink"
    /\ full_width > block_width
    /\ shrink_loop_guard(size_shrink)
    /\ size_shrink' = Shrunk(size_shrink)
    /\ full_width' = FullWidthAt(size_shrink')
    /\ UNCHANGED <<outsideReflow, rpc, segments, block_width, original_size, original_lines,
                   fontsize, lines, strategy>>

\* lines 696-732 after the shrink loop: one line at the shrunk size if the
\* last measurement fits, otherwise wrap at the original size
ShrinkExit ==
    /\ rpc = "shrink"
    /\ full_width <= block_width \/ ~shrink_loop_guard(size_shrink)
    /\ IF full_width <= block_width
       THEN /\ fontsize' = size_shrink
            /\ lines' = <<WholeSegments>>
            /\ strategy' = "shrink"
            /\ rpc' = "emit"
       ELSE /\ fontsize' = original_size
            /\ lines' = wrap_segments(original_size)
            /\ strategy' = "wrap"
            /\ rpc' = IF original_size > heading_size THEN "heading" ELSE "emit"
    /\ UNCHANGED <<outsideReflow, segments, block_width, original_size, original_lines,
                   size_shrink, full_width>>

heading_loop_guard_OneMore == fontsize > min_fontsize /\ Len(lines) > original_lines + 1

\* line 676: the condition of the loop of ajustar_titulo_para_linhas
heading_loop_guard == Len(lines) > original_lines /\ fontsize > min_fontsize

\* lines 677-678: one iteration of that loop
HeadingStep ==
    /\ rpc = "heading"
    /\ heading_loop_guard
    /\ fontsize' = Shrunk(fontsize)
    /\ lines' = wrap_segments(fontsize')
    /\ strategy' = "heading"
    /\ UNCHANGED <<outsideReflow, rpc, segments, block_width, original_size, original_lines,
                   size_shrink, full_width>>

\* line 679: the loop is over, lines and fs are returned
HeadingExit ==
    /\ rpc = "heading"
    /\ ~heading_loop_guard
    /\ rpc' = "emit"
    /\ UNCHANGED <<outsideReflow, segments, block_width, original_size, original_lines, fontsize,
                   size_shrink, full_width, lines, strategy>>

NextReflow ==
    \/ MeasureFull
    \/ ShrinkStep
    \/ ShrinkExit
    \/ HeadingStep
    \/ HeadingExit

SpecReflow == InitReflow /\ [][NextReflow]_vars

(* ---------------------------------------------------------------------- *)
(* Tagging and parsing of the text of one block (lines 596-646)            *)
(* ---------------------------------------------------------------------- *)
\* Texts are sequences of characters.
MaxBlockSpans == 2
MaxRuns == 2

\* the opening tags '<b><i>', '<b>', '<i>' of lines 604-608 and of the pattern
OpenTag(style) ==
    CASE style = "bolditalic" -> <<"<", "b", ">", "<", "i", ">">>
      [] style = "bold" -> <<"<", "b", ">">>
      [] style = "italic" -> <<"<", "i", ">">>
      [] OTHER -> <<>>

\* the closing tags '</i></b>', '</b>', '</i>'
CloseTag(style) ==
    CASE style = "bolditalic" -> <<"<", "/", "i", ">", "<", "/", "b", ">">>
      [] style = "bold" -> <<"<", "/", "b", ">">>
      [] style = "italic" -> <<"<", "/", "i", ">">>
      [] OTHER -> <<>>

\* html.escape of one character (no quote character occurs in the texts)
Entity(c) ==
    CASE c = "&" -> <<"&", "a", "m", "p", ";">>
      [] c = "<" -> <<"&", "l", "t", ";">>
      [] c = ">" -> <<"&", "g", "t", ";">>
      [] OTHER -> <<c>>

RECURSIVE html_escape(_)
html_escape(s) == IF s = <<>> THEN <<>> ELSE Entity(Head(s)) \o html_escape(Tail(s))

\* s[i - 1:].startswith(pat), positions counted from 1
StartsWithAt(s, pat, i) ==
    i + Len(pat) - 1 <= Len(s) /\ SubSeq(s, i, i + Len(pat) - 1) = pat

RECURSIVE unescape_from(_, _)
unescape_from(s, i) ==
    IF i > Len(s) THEN <<>>
    ELSE IF StartsWithAt(s, Entity("&"), i) THEN <<"&">> \o unescape_from(s, i + 5)
    ELSE IF StartsWithAt(s, Entity("<"), i) THEN <<"<">> \o unescape_from(s, i + 4)
    ELSE IF StartsWithAt(s, Entity(">"), i) THEN <<">">> \o unescape_from(s, i + 4)
    ELSE <<s[i]>> \o unescape_from(s, i + 1)

\* html.unescape, on texts whose '&' either starts one of the three entities
\* above or is followed by no entity name
html_unescape(s) == unescape_from(s, 1)

RECURSIVE lstrip(_)
lstrip(s) == IF s # <<>> /\ Head(s) = " " THEN lstrip(Tail(s)) ELSE s

RECURSIVE rstrip(_)
rstrip(s) == IF s # <<>> /\ s[Len(s)] = " " THEN rstrip(SubSeq(s, 1, Len(s) - 1)) ELSE s

\* str.strip()
strip(s) == rstrip(lstrip(s))

\* fonts of the spans of a block: plain, bold, italic, bold italic
OpenSansBoldItalicPs == <<"Open", "Sans", "-", "Bold", "Italic">>

TagFonts == {TimesPSMT, OpenSansBoldPs, OpenSansItalicPs, OpenSansBoldItalicPs}

SpanTexts == {<<"x">>, <<"x", "&", "y">>, <<"y", " ">>}

\* span['origin'] = (x, y)
Origins == {<<0, 0>>, <<1, 0>>, <<0, 1>>}

BlockSpans == [text : SpanTexts, font : TagFonts, origin : Origins]

SpanLists == SeqsUpTo(BlockSpans, MaxBlockSpans) \ {<<>>}

\* the sort key (s['origin'][1], s['origin'][0]) of line 597
KeyLE(a, b) ==
    \/ a.origin[2] < b.origin[2]
    \/ a.origin[2] = b.origin[2] /\ a.origin[1] <= b.origin[1]

\* insert x after the elements of the sorted list q whose key is not greater
InsertSorted(q, x) ==
    LET n == Cardinality({i \in 1..Len(q) : KeyLE(q[i], x)})
    IN  SubSeq(q, 1, n) \o <<x>> \o SubSeq(q, n + 1, Len(q))

RECURSIVE sorted_from(_, _, _)
sorted_from(q, i, acc) ==
    IF i > Len(q) THEN acc ELSE sorted_from(q, i + 1, InsertSorted(acc, q[i]))

\* line 597: sorted(block['spans'], key=...), a stable sort
sorted_spans == sorted_from(block_spans, 1, <<>>)

\* lines 600-610: the piece of the tagged string for one span
piece_of(span) ==
    LET text == strip(span.text)
        style == tag_style_of(span.font)
    IN  OpenTag(style) \o html_escape(text) \o CloseTag(style)

RECURSIVE marked_from(_, _, _)
\* lines 599-614: the loop over sorted_spans
marked_from(q, i, acc) ==
    IF i > Len(q) THEN acc
    ELSE LET piece == piece_of(q[i])
             sep == IF acc # <<>> /\ acc[Len(acc)] # " " /\ ~(piece # <<>> /\ piece[1] = " ")
                    THEN <<" ">> ELSE <<>>
         IN  marked_from(q, i + 1, acc \o sep \o piece)

\* first position >= i at which pat occurs in s, or 0
FindFrom(s, pat, i) ==
    LET hits == {j \in i..Len(s) : StartsWithAt(s, pat, j)}
    IN  IF hits = {} THEN 0 ELSE Min(hits)

\* one alternative open.*?close of the pattern tried at position p: the
\* position after the match, or 0
AltEnd(s, p, open, close) ==
    IF StartsWithAt(s, open, p)
    THEN LET e == FindFrom(s, close, p + Len(open))
         IN  IF e = 0 THEN 0 ELSE e + Len(close)
    ELSE 0

\* line 625: pattern = r'(<b><i>.*?</i></b>|<b>.*?</b>|<i>.*?</i>)' tried at
\* position p, alternatives in their order
MatchEnd(s, p) ==
    LET alt(style) == AltEnd(s, p, OpenTag(style), CloseTag(style))
    IN  IF alt("bolditalic") # 0 THEN alt("bolditalic")
        ELSE IF alt("bold") # 0 THEN alt("bold")
        ELSE alt("italic")

\* start of the next match of re.finditer after the first n characters, or 0
NextMatch(s, n) ==
    LET starts == {p \in (n + 1)..Len(s) : MatchEnd(s, p) # 0}
    IN  IF starts = {} THEN 0 ELSE Min(starts)

\* grp[a:-b]
PySlice(grp, a, b) == SubSeq(grp, a + 1, Len(grp) - b)

\* lines 634-639: text and style of the segment of a match
styled_segment(grp) ==
    IF StartsWithAt(grp, OpenTag("bolditalic"), 1)
    THEN [text |-> PySlice(grp, 7, 7), style |-> "bolditalic"]
    ELSE IF StartsWithAt(grp, OpenTag("bold"), 1) THEN [text |-> PySlice(grp, 3, 4), style |-> "bold"]
    ELSE [text |-> PySlice(grp, 3, 4), style |-> "italic"]

\* lines 631-632 and 644-646: the normal segment for text outside the tags
plain_segments(txt) ==
    IF txt # <<>> THEN <<[text |-> html_unescape(txt), style |-> "normal"]>> ELSE <<>>

\* the spans of one block are given
InitTagging ==
    /\ MainIdle
    /\ GroupIdle
    /\ PlaceIdle
    /\ ReflowIdle
    /\ tpc = "tag"
    /\ block_spans \in SpanLists
    /\ marked_text = <<>>
    /\ translated_xml = <<>>
    /\ last_end = 0
    /\ parsed = <<>>

\* lines 596-614
TagSpans ==
    /\ tpc = "tag"
    /\ marked_text' = marked_from(sorted_spans, 1, <<>>)
    /\ tpc' = "translate"
    /\ UNCHANGED <<outsideText, block_spans, translated_xml, last_end, parsed>>

\* lines 616-623 with a translator that returns its input unchanged
TranslateUnchanged ==
    /\ tpc = "translate"
    /\ translated_xml' = marked_text
    /\ tpc' = "parse"
    /\ UNCHANGED <<outsideText, block_spans, marked_text, last_end, parsed>>

\* lines 628-641: one iteration of the loop over re.finditer
ParseMatch ==
    /\ tpc = "parse"
    /\ NextMatch(translated_xml, last_end) # 0
    /\ LET start == NextMatch(translated_xml, last_end)
           end == MatchEnd(translated_xml, start)
           pre == SubSeq(translated_xml, last_end + 1, start - 1)
           grp == SubSeq(translated_xml, start, end - 1)
       IN  /\ parsed' = parsed \o plain_segments(pre) \o <<styled_segment(grp)>>
           /\ last_end' = end - 1
    /\ UNCHANGED <<outsideText, tpc, block_spans, marked_text, translated_xml>>

\* lines 642-646: the text after the last match
ParseTail ==
    /\ tpc = "parse"
    /\ NextMatch(translated_xml, last_end) = 0
    /\ parsed' = parsed \o plain_segments(SubSeq(translated_xml, last_end + 1, Len(translated_xml)))
    /\ tpc' = "parsed"
    /\ UNCHANGED <<outsideText, block_spans, marked_text, translated_xml, last_end>>

NextTagging ==
    \/ TagSpans
    \/ TranslateUnchanged
    \/ ParseMatch
    \/ ParseTail

SpecTagging == InitTagging /\ [][NextTagging]_vars

\* content of a run of a translated string
RunContents == {<<>>, <<"x">>, <<"x">> \o Entity("&") \o <<"y">>}

Runs == [style : {"normal", "bold", "italic", "bolditalic"}, content : RunContents]

RunText(r) == OpenTag(r.style) \o r.content \o CloseTag(r.style)

RECURSIVE ConcatRuns(_, _)
ConcatRuns(q, i) == IF i > Len(q) THEN <<>> ELSE RunText(q[i]) \o ConcatRuns(q, i + 1)

\* strings over the tag vocabulary that the translation service can return
TranslatedStrings == {ConcatRuns(q, 1) : q \in SeqsUpTo(Runs, MaxRuns)}

\* a translated string is given
InitParse ==
    /\ MainIdle
    /\ GroupIdle
    /\ PlaceIdle
    /\ ReflowIdle
    /\ tpc = "parse"
    /\ block_spans = <<>>
    /\ marked_text = <<>>
    /\ translated_xml \in TranslatedStrings
    /\ last_end = 0
    /\ parsed = <<>>

NextParse ==
    \/ ParseMatch
    \/ ParseTail

SpecParse == InitParse /\ [][NextParse]_vars

(* ---------------------------------------------------------------------- *)
(* Properties                                                              *)
(* ---------------------------------------------------------------------- *)
Resolved(f) == f \in DOMAIN font_registry /\ font_registry[f] # None /\ font_registry[f] # <<>>

DocLoopDone == doc_idx > Len(font_info_map) /\ pc \notin {"open", "defaults", "catalog"}

SecondaryLoopDone == pc \in {"page_place", "save", "done", "crashed"}

StageNo(stage) ==
    CASE stage = "embedded" -> 1 [] stage = "local" -> 2 [] stage = "remote" -> 3 [] OTHER -> 4

\* the document font whose four stages have just been completed
JustFinished == IF doc_idx >= 2 /\ (pc = "embedded" \/ (pc = AfterDocLoop /\ page_no = 1 /\ DocLoopDone))
                THEN doc_idx - 1 ELSE 0

\* the default handle the substring rule selects for a font identifier
ExpectedDefault(f) ==
    IF Contains(f, "Bold") THEN font_registry[K_default_bold]
    ELSE IF Contains(f, "Italic") \/ Contains(f, "Oblique") THEN font_registry[K_default_italic]
    ELSE font_registry[K_default]

\* C1: resolution totality.  Every document font whose iteration of the
\* registration loop is complete (all of them once the loop is over), and every
\* font found by secondary extraction once the page's secondary loop is over,
\* is a key of font_registry with a non-null handle name.
C1_ResolutionTotality ==
    /\ \A i \in 1..Len(font_info_map) : i < doc_idx => Resolved(font_info_map[i])
    /\ DocLoopDone => \A f \in Range(font_info_map) : Resolved(f)
    /\ \A f \in seen_pdfminer : Resolved(f)
    /\ SecondaryLoopDone => fontes_pdfminer = {}

\* a run without catalog and without Roboto files in which a document font and
\* a secondary font have both been resolved
C1_Witness ==
    /\ pc = "page_place"
    /\ seen_pdfminer # {}
    /\ Len(font_info_map) = MaxDocFonts
    /\ DOMAIN google_fonts = {}
    /\ font_registry[K_default] = TimesRoman
    /\ seen_pdfminer \cap Range(font_info_map) = {}

\* C2: resolution idempotence.  When the secondary loop processes a font that
\* the run has resolved before (a document font or a font processed by an
\* earlier secondary loop), the font's registry entry does not change.
C2_ResolutionIdempotence ==
    [][\A f \in MinerFontIds :
          (/\ pc = "page_secondary"
           /\ f \in fontes_pdfminer /\ f \notin fontes_pdfminer'
           /\ f \in Range(font_info_map) \cup seen_pdfminer)
          => font_registry'[f] = font_registry[f]]_vars

\* C3: download at most once.  No variant name is the target of more than one
\* download request in a run.
C3_DownloadAtMostOnce == \A v \in DOMAIN requests : requests[v] <= 1

\* C4: alias coverage.  When the remote stage has just registered a document
\* font that carries a subset prefix, the identifier without prefix, without
\* prefix and hyphen, and its bare family name are registry keys mapped to the
\* same variant as the identifier.
C4_AliasCoverage ==
    (/\ pc = "default"
     /\ fonte_registrada
     /\ Contains(CurPs, "+")
     /\ stage_log[doc_idx].writers = <<"remote">>)
    => LET np == name_part_of(CurPs)
       IN  \A a \in {np, RemoveTok(np, "-"), StripTrailingStyle(np)} :
              a \in DOMAIN font_registry /\ font_registry[a] = font_registry[CurPs]

\* C5: stage ordering.  For every document font the attempted stages are in
\* the order embedded, local, remote, default; no stage is attempted after a
\* stage that wrote the font's entry; and once the four stages are over exactly
\* one stage has written the font's own entry.
C5_StageOrdering ==
    \A i \in 1..Len(stage_log) :
       LET a == stage_log[i].attempted
           w == stage_log[i].writers
       IN  /\ \A j, k \in 1..Len(a) : j < k => StageNo(a[j]) < StageNo(a[k])
           /\ \A j \in 1..Len(a), k \in 1..Len(w) : StageNo(w[k]) >= StageNo(a[j])
           /\ Len(w) <= 1
           /\ i < doc_idx => Len(w) = 1

\* a document in which one font was registered by the local stage after a
\* failed extraction and another went through all four stages
C5_Witness ==
    /\ DocLoopDone
    /\ \E i, j \in 1..Len(stage_log) :
          /\ stage_log[i].attempted = <<"embedded", "local">>
          /\ stage_log[i].writers = <<"local">>
          /\ stage_log[j].attempted = <<"embedded", "local", "remote", "default">>
          /\ stage_log[j].writers = <<"default">>

EmbeddedBound(f) ==
    /\ f \in DOMAIN font_registry /\ font_registry[f] = f
    /\ DHas(file_registry, f)
    /\ DGet(file_registry, f, NoPath) \in {TmpPath(f, "ttf"), TmpPath(f, "pfa")}

\* C6: embedded fonts are authoritative.  A font registered by embedded
\* extraction (mapped to itself, bound to its extracted file) stays so in every
\* later state.
C6_EmbeddedAuthoritative ==
    [][\A f \in MinerFontIds : EmbeddedBound(f) => EmbeddedBound(f)']_vars

\* C7: remote variant selection.  A document font that neither embedded
\* extraction nor local match registered, whose normalised name hits a catalog
\* family offering the variant of the font's apparent style, is mapped to that
\* variant when its iteration of the registration loop ends.
C7_RemoteVariantSelection ==
    LET i == JustFinished
    IN  i >= 1 =>
          LET f == font_info_map[i]
              family == match_family(google_fonts, f)
              sv == style_variant_of(name_part_of(f))
          IN  (/\ stage_log[i].writers \notin {<<"embedded">>, <<"local">>}
               /\ family # None
               /\ sv \in google_fonts[family])
              => font_registry[f] = padronizar_nome_fonte(fam_key_of(family), sv)

\* names of the variants of the catalog families
VariantNames ==
    {padronizar_nome_fonte(fam_key_of(fam), v) : fam \in {OpenSansFamily}, v \in VariantSet}

ProcessedFonts == {font_info_map[i] : i \in {j \in 1..Len(font_info_map) : j < doc_idx}} \cup seen_pdfminer

\* C8: download failure falls through.  While the temporary directory exists,
\* no file_registry entry points at a file that was never written, and no
\* processed font is registered to a variant whose file is missing.
C8_DownloadFailureFallsThrough ==
    pc # "done" =>
      /\ \A i \in 1..Len(file_registry) : file_registry[i][2] \in DOMAIN disk
      /\ \A f \in ProcessedFonts :
            font_registry[f] \in VariantNames => TmpPath(font_registry[f], "ttf") \in DOMAIN disk

\* C9: validation fallback.  At placement time no registry entry resolves to a
\* file that fails the signature check, and no segment is omitted from the page.
C9_ValidationFallback ==
    pc = "page_place" =>
      /\ \A k \in DOMAIN font_registry :
            LET path == DGet(file_registry, font_registry[k], NoPath)
            IN  path \in DOMAIN disk => is_valid_font_file(disk, path)
      /\ \A n \in 1..Len(placed) : placed[n].how # "omitted"

\* C10: default-fallback choice.  Whenever the fallback stage of the document
\* loop or of the secondary loop registers a font, the font is mapped to the
\* default handle selected by the Bold / Italic / Oblique substring rule.
C10_DefaultFallbackChoice ==
    [][/\ (pc = "default" /\ ~fonte_registrada)
            => font_registry'[CurPs] = ExpectedDefault(CurPs)
       /\ \A f \in MinerFontIds :
            (pc = "page_secondary" /\ f \in fontes_pdfminer /\ f \notin fontes_pdfminer'
             /\ ~fonte_registrada')
            => font_registry'[f] = ExpectedDefault(f)]_vars

\* paths inside the temporary directory, the directory itself included
TmpPaths == {p \in DOMAIN disk : p[1] = "tmp"}

RunEnded == pc \in {"done", "crashed"}

\* C11: temporary-file teardown.  Whenever a run has ended after the temporary
\* directory was created, by normal completion or by an uncaught failure (of
\* opening the documents, of the translation call, of the fallback placement),
\* neither the directory nor any file in it is left on disk.
C11_TmpTeardown == RunEnded => TmpPaths = {}

\* C12: placement failure recovery.  A placement whose first attempt failed is
\* retried with the default font, and whatever the retry's outcome the run goes
\* on with the rest of the page: the run never ends on a failed retry.
C12_PlacementRecovery ==
    ~(pc = "crashed" /\ Len(placed) > 0 /\ placed[Len(placed)].how = "failed")

\* raw spans of the current page in an Unnamed-* font for which the secondary
\* extraction returned no span
MissedSpans == {i \in 1..Len(raw_spans) :
                  raw_spans[i].kind = "unnamed" /\ raw_spans[i].miner = <<>>}

PageExtracted == pc \in {"page_secondary", "page_place", "save", "done"}

PagePlaced == pc \in {"save", "done"} \/ (pc = "page_place" /\ span_idx > Len(spans))

DefaultHandleNames == {font_registry[k] : k \in {K_default, K_default_bold, K_default_italic}
                                                \cap DOMAIN font_registry}

\* C13: secondary-extraction miss.  A span in an Unnamed-* font for which the
\* secondary extraction returned nothing is kept in the page's span list with
\* its own font name, and once the page has been placed its text has been
\* placed with a default fallback font.
C13_SecondaryMissKeepsSpan ==
    \A i \in MissedSpans :
        /\ PageExtracted =>
              \E k \in 1..Len(spans) : spans[k].src = i /\ spans[k].raw_font = UnnamedFont
        /\ PagePlaced =>
              \E n \in 1..Len(placed) :
                  /\ spans[placed[n].span].src = i
                  /\ placed[n].fontname \in DefaultHandleNames

\* measured width of an emitted line at the font size chosen for the block
\* (line 738)
LineWidth(line) == SumWidth(line, 1, fontsize)

IsSingleWord(line) == Len(line) = 1 /\ line[1].from = line[1].to

\* width of the word of a one-word line without the ' ' that follows it
WordAloneWidth(line) == (segments[line[1].seg][line[1].from] * fontsize) \div 10

\* C14: reflow monotonic fit.  Every line the reflow emits, by whichever
\* strategy, has a measured width at the final font size of at most the block
\* width, unless the line is a single word that by itself is wider than the
\* block.
C14_ReflowFit ==
    rpc = "emit" =>
        \A n \in 1..Len(lines) :
            \/ LineWidth(lines[n]) <= block_width
            \/ IsSingleWord(lines[n]) /\ WordAloneWidth(lines[n]) > block_width

\* C14 as the code has it: the exception is a one-word line whose word, with
\* the ' ' that wrap_segments keeps after it, is wider than the block.
C14_ReflowFitWithSpace ==
    rpc = "emit" =>
        \A n \in 1..Len(lines) :
            \/ LineWidth(lines[n]) <= block_width
            \/ IsSingleWord(lines[n])

\* a wrapped block with a line that fits, and a one-word line wider than the block
C14_Witness ==
    /\ rpc = "emit"
    /\ strategy \in {"wrap", "heading"}
    /\ \E n \in 1..Len(lines) : Len(lines[n]) > 1 /\ LineWidth(lines[n]) <= block_width
    /\ \E n \in 1..Len(lines) : IsSingleWord(lines[n]) /\ LineWidth(lines[n]) > block_width

\* C15: shrink floor.  Every font size the shrink strategy measures, and the
\* size it finally uses for the single line, is at least 90% of the block's
\* original font size.
C15_ShrinkFloor ==
    /\ rpc = "shrink" => size_shrink * 10 >= original_size * 9
    /\ (rpc = "emit" /\ strategy = "shrink") => fontsize * 10 >= original_size * 9

IsHeading == original_size > heading_size

\* C16: heading line-count non-regression.  For every heading block and every
\* translated text the reflow emits at most as many lines as the block had
\* line clusters in the source.
C16_HeadingLineCount ==
    (rpc = "emit" /\ IsHeading) => Len(lines) <= original_lines

\* C16 as the code has it: a heading is emitted in more lines than the source
\* had only when shrinking has brought its font size down to the floor of 10
\* units.
C16_HeadingLineCountToFloor ==
    (rpc = "emit" /\ IsHeading) => (Len(lines) <= original_lines \/ fontsize <= min_fontsize)

\* a heading that wrapped into too many lines and was shrunk, above the
\* floor, until it had no more lines than the source
C16_Witness ==
    /\ rpc = "emit"
    /\ IsHeading
    /\ strategy = "heading"
    /\ Len(lines) <= original_lines
    /\ Len(wrap_segments(original_size)) > original_lines
    /\ fontsize > min_fontsize

\* the block has one span in a bold font and one span in a plain font
OneBoldOnePlain ==
    /\ Len(block_spans) = 2
    /\ {tag_style_of(block_spans[k].font) : k \in 1..2} = {"bold", "normal"}

\* C17: style round-trip.  For a block of one bold span and one plain span and
\* a translator that returns the tagged string unchanged, parsing gives exactly
\* two segments, in reading order, each with the style of its span and with the
\* text of its span (up to the space the serialisation puts between the pieces).
C17_StyleRoundTrip ==
    (tpc = "parsed" /\ OneBoldOnePlain /\ translated_xml = marked_text) =>
        /\ Len(parsed) = 2
        /\ \A k \in 1..2 :
              /\ parsed[k].style = tag_style_of(sorted_spans[k].font)
              /\ strip(parsed[k].text) = strip(sorted_spans[k].text)

RECURSIVE ConcatTexts(_, _)
ConcatTexts(q, i) == IF i > Len(q) THEN <<>> ELSE q[i].text \o ConcatTexts(q, i + 1)

RECURSIVE strip_tags_from(_, _)
\* s without its markup: every '<' of a translated string opens a tag
strip_tags_from(s, i) ==
    IF i > Len(s) THEN <<>>
    ELSE IF s[i] = "<"
    THEN LET close == {j \in i..Len(s) : s[j] = ">"}
         IN  IF close = {} THEN <<>> ELSE strip_tags_from(s, Min(close) + 1)
    ELSE <<s[i]>> \o strip_tags_from(s, i + 1)

\* the visible content of a translated string: markup removed, entities unescaped
VisibleContent(s) == html_unescape(strip_tags_from(s, 1))

\* C18: lossless segment parsing.  For every translated string over the tag
\* vocabulary the concatenation of the texts of the parsed segments is the
\* visible content of the string.
C18_LosslessParsing ==
    tpc = "parsed" => ConcatTexts(parsed, 1) = VisibleContent(translated_xml)

Styles == {"normal", "bold", "italic", "bolditalic"}

\* C20: style lookup is pure.  In a step that places a block, and so calls
\* get_font_for_style for the block's first span, the registries are left
\* unchanged and no download or catalog request is issued; the lookup gives a
\* non-null font name for every style, and looked up again with the same
\* arguments and the same registries it gives the name it gave in the step.
C20_StyleLookupPure ==
    [][(pc = "page_place" /\ placed' # placed) =>
          /\ UNCHANGED <<font_registry, file_registry, requests, google_fonts, disk>>
          /\ \A style \in Styles :
                get_font_for_style(font_registry, file_registry, spans[span_idx].font, style)
                    \notin {None, <<>>}
          /\ placed'[Len(placed')].resolved =
                get_font_for_style(font_registry', file_registry', spans[span_idx].font,
                                   placed'[Len(placed')].style)]_vars

\* an italic span was placed whose lookup went down to the default italic handle
C20_Witness ==
    /\ Len(placed) > 0
    /\ placed[1].style = "italic"
    /\ placed[1].resolved = font_registry[K_default_italic]
    /\ style_candidate(Get(font_registry, spans[1].font, spans[1].font), "italic")
           \notin DOMAIN font_registry

\* the name the lookup tries first: the base itself for normal, the base with
\* the style's suffix otherwise
NaturalName(base, style) == IF style = "normal" THEN base ELSE style_candidate(base, style)

\* the default handle kept for a style (bold italic has none of its own and
\* takes the bold one, or the italic one when there is no bold one)
DefaultFor(style) ==
    CASE style = "normal" -> Get(font_registry, K_default, None)
      [] style = "bold" -> Get(font_registry, K_default_bold, None)
      [] style = "italic" -> Get(font_registry, K_default_italic, None)
      [] OTHER -> Or(Get(font_registry, K_default_bold, None), Get(font_registry, K_default_italic, None))

\* the lookup in the order exact entry, local variant search, suffix swapped
\* for Regular, default handle
LookupInOrder(base_raw, style) ==
    LET base == Get(font_registry, base_raw, base_raw)
        variante == buscar_variante_local(font_registry, file_registry, base, style)
    IN  IF NaturalName(base, style) \in DOMAIN font_registry
        THEN font_registry[NaturalName(base, style)]
        ELSE IF variante # None THEN variante
        ELSE IF fam_reg_of(base) \in DOMAIN font_registry THEN font_registry[fam_reg_of(base)]
        ELSE DefaultFor(style)

\* a document whose fonts are a regular face, a bold face of the same family
\* under a name without separator, a bold face of another family and a bold
\* italic face
StyledDocFonts ==
    << <<"Times", "-", "Regular">>, <<"Times", "Bold">>, <<"Arial", "-", "Bold">>,
       OpenSansBoldItalicPs >>

\* the program started on that document, with an empty ./fonts directory
InitStyledDoc ==
    /\ GroupIdle
    /\ PlaceIdle
    /\ ReflowIdle
    /\ TextIdle
    /\ pc = "open"
    /\ font_info_map = StyledDocFonts
    /\ local_fonts_map = {}
    /\ google_fonts = EmptyDict
    /\ font_registry = EmptyDict
    /\ file_registry = <<>>
    /\ family_variants_cache = {}
    /\ disk = [k \in {TmpDir} |-> "dir"]
    /\ requests = EmptyDict
    /\ doc_idx = 1
    /\ fonte_registrada = FALSE
    /\ stage_log = <<>>
    /\ page_no = 1
    /\ raw_spans = <<>>
    /\ spans = <<>>
    /\ fontes_pdfminer = {}
    /\ seen_pdfminer = {}
    /\ page_fonts = {}
    /\ span_idx = 1
    /\ placed = <<>>

SpecStyledDoc == InitStyledDoc /\ [][Next]_vars

\* names a block's first span can carry when the lookup is called
LookupBases == {spans[k].font : k \in 1..Len(spans)}

\* C21: style lookup order.  For every style the lookup gives the exact
\* registry entry of the naturally-suffixed name, else the result of the local
\* variant search, else the entry of the base with its style suffix swapped for
\* Regular, else the default handle of the style.
C21_StyleLookupOrder ==
    pc = "page_place" =>
        \A base_raw \in LookupBases : \A style \in Styles :
            get_font_for_style(font_registry, file_registry, base_raw, style)
                = LookupInOrder(base_raw, style)

\* the reflow of a heading has returned from the shrink-and-rewrap step
HeadingPlaced == rpc = "emit" /\ original_size > heading_size /\ strategy \in {"wrap", "heading"}

\* C25: heading shrink floor.  Every step of the heading loop multiplies the
\* font size by 0.95 and nothing else, and the size with which the lines of a
\* heading are placed is never below 10.
C25_HeadingFloor ==
    /\ [][HeadingStep => fontsize' = Shrunk(fontsize)]_vars
    /\ [](HeadingPlaced => fontsize >= min_fontsize)

\* the letters of a word of the given advance
WordChars(a) == IF a = 10 THEN <<"a", "a">> ELSE <<"b", "b", "b", "b", "b", "b", "b">>

RECURSIVE seg_text(_)
\* seg['text'] of a segment: its words separated by single spaces
seg_text(words) ==
    IF words = <<>> THEN <<>>
    ELSE IF Len(words) = 1 THEN WordChars(words[1])
    ELSE WordChars(words[1]) \o <<" ">> \o seg_text(Tail(words))

RECURSIVE split_from(_, _, _)
\* line 712: text.split(' '), the pieces of text from position i on, cur being
\* the piece read so far
split_from(text, i, cur) ==
    IF i > Len(text) THEN <<cur>>
    ELSE IF text[i] = " " THEN <<cur>> \o split_from(text, i + 1, <<>>)
    ELSE split_from(text, i + 1, Append(cur, text[i]))

RECURSIVE txt_of(_, _)
\* line 714: the text of the words from k on of an emitted item, each word with
\* its ' ' unless it is the last word of the segment
txt_of(item, k) ==
    LET words == split_from(seg_text(segments[item.seg]), 1, <<>>)
    IN  IF k > item.to THEN <<>>
        ELSE words[k] \o (IF k < Len(words) THEN <<" ">> ELSE <<>>) \o txt_of(item, k + 1)

RECURSIVE Flatten(_)
Flatten(ls) == IF ls = <<>> THEN <<>> ELSE Head(ls) \o Flatten(Tail(ls))

\* the texts of the emitted items of all lines, in order, as one string
EmittedText == Flatten([i \in 1..Len(Flatten(lines)) |-> txt_of(Flatten(lines)[i], Flatten(lines)[i].from)])

\* the texts of the translated segments as one string
SegmentsText == Flatten([i \in 1..Len(segments) |-> seg_text(segments[i])])

\* the lines are the result of wrap_segments
Wrapped == strategy \in {"wrap", "heading"}

\* C27: wrapping loses no text.  Whenever the lines come from wrap_segments, at
\* any font size, the texts of the emitted words over all lines, in order, make
\* up exactly the texts of the translated segments; the emitted words are the
\* words of the segments in order, each naming the segment whose style it
\* carries; and no line is empty.
C27_WrapLossless ==
    Wrapped =>
        /\ EmittedText = SegmentsText
        /\ \A i \in 1..Len(Flatten(lines)) :
               /\ Flatten(lines)[i].seg \in 1..Len(segments)
               /\ Flatten(lines)[i] = Words(1)[i]
        /\ \A l \in 1..Len(lines) : lines[l] # <<>>

\* a text of two segments wrapped into several lines, one of them of several words
C27_Witness ==
    /\ Wrapped
    /\ Len(segments) = 2
    /\ Len(lines) >= 2
    /\ \E l \in 1..Len(lines) : Len(lines[l]) >= 2

\* C24: markup tag selection.  The tag pair wrapped around the text of every
\* span is the one its source font identifier, as the extraction reported it,
\* calls for, whatever name that identifier was resolved to.
C24_TagFromSourceFont ==
    \A k \in 1..Len(placed) :
        placed[k].style = tag_style_of(spans[placed[k].span].raw_font)

(* ---------------------------------------------------------------------- *)
(* Grouping of a page's spans and alignment of the blocks (450-471,        *)
(* 563-595)                                                                *)
(* ---------------------------------------------------------------------- *)
\* Coordinates are in points, sizes in tenths of a point.
MaxGroupSpans == 3

\* the spans of get_text('dict') (lines 330-337) a page can hold.  A span is 10
\* high with its baseline at y0 + 8; there is text of size 12 at every
\* horizontal extent and line top, text of the other sizes, and a span whose
\* origin lies right of its box
PageSpans ==
    LET XExtents == {<<0, 100>>, <<0, 40>>, <<50, 100>>, <<10, 80>>}
        LineTops == {0, 1, 12, 24}
        SpanSizes == {120, 125, 130}
        SpanAt(ext, top, size, dx) ==
            [bbox |-> <<ext[1], top, ext[2], top + 10>>, size |-> size,
             origin |-> <<ext[1] + dx, top + 8>>]
    IN  {SpanAt(ext, top, 120, 0) : ext \in XExtents, top \in LineTops}
            \cup {SpanAt(<<0, 100>>, 0, size, 0) : size \in SpanSizes}
            \cup {SpanAt(<<0, 100>>, 0, 120, 8)}

Abs(n) == IF n < 0 THEN 0 - n ELSE n

\* line 464: the test of group_spans, with x_threshold = y_threshold = 10
Fits(span, block) ==
    /\ Abs(span.size - block.size) <= 5
    /\ ~ \/ span.bbox[3] < block.bbox[1] - 10
         \/ span.bbox[1] > block.bbox[3] + 10
         \/ span.bbox[4] < block.bbox[2] - 10
         \/ span.bbox[2] > block.bbox[4] + 10

RECURSIVE place_from_Last(_, _, _)
place_from_Last(bs, i, span) ==
    IF i > Len(bs)
    THEN Append(bs, [spans |-> <<span>>, size |-> span.size, bbox |-> span.bbox,
                     alignment |-> "none"])
    ELSE IF Fits(span, bs[Len(bs) + 1 - i])
    THEN [bs EXCEPT ![Len(bs) + 1 - i] =
             [@ EXCEPT !.spans = Append(@, span),
                       !.bbox = <<Min({@[1], span.bbox[1]}), Min({@[2], span.bbox[2]}),
                                  Max({@[3], span.bbox[3]}), Max({@[4], span.bbox[4]})>>]]
    ELSE place_from_Last(bs, i + 1, span)

RECURSIVE place_from(_, _, _)
\* lines 461-470: the inner loop of group_spans from block i on, then the new
\* block when no block took the span
place_from(bs, i, span) ==
    IF i > Len(bs)
    THEN Append(bs, [spans |-> <<span>>, size |-> span.size, bbox |-> span.bbox,
                     alignment |-> "none"])
    ELSE IF Fits(span, bs[i])
    THEN [bs EXCEPT ![i] =
             [@ EXCEPT !.spans = Append(@, span),
                       !.bbox = <<Min({@[1], span.bbox[1]}), Min({@[2], span.bbox[2]}),
                                  Max({@[3], span.bbox[3]}), Max({@[4], span.bbox[4]})>>]]
    ELSE place_from(bs, i + 1, span)

RECURSIVE line_clusters_from(_, _, _)
\* lines 568-578: the line clusters of the spans i.. given the clusters lcs
line_clusters_from(sps, i, lcs) ==
    IF i > Len(sps) THEN lcs
    ELSE LET y == sps[i].origin[2]
             near == {k \in 1..Len(lcs) : Abs(y - lcs[k].y) <= 1}
         IN  IF near = {}
             THEN line_clusters_from(sps, i + 1, Append(lcs, [y |-> y, spans |-> <<sps[i]>>]))
             ELSE line_clusters_from(sps, i + 1,
                      [lcs EXCEPT ![Min(near)].spans = Append(@, sps[i])])

line_clusters(block) == line_clusters_from(block.spans, 1, <<>>)

\* lines 583-586: offset_left and offset_right of a line cluster in its block
offsets(lc, block) ==
    LET x0_line == Min({lc.spans[k].origin[1] : k \in 1..Len(lc.spans)})
        x1_line == Max({lc.spans[k].origin[1] + (lc.spans[k].bbox[3] - lc.spans[k].bbox[1]) :
                            k \in 1..Len(lc.spans)})
    IN  [left |-> x0_line - block.bbox[1], right |-> block.bbox[3] - x1_line]

vote_LeftFirst(off) ==
    IF off.left <= 5 THEN "left"
    ELSE IF off.right <= 5 THEN "right"
    ELSE IF Abs(off.left - off.right) <= 5 THEN "center"
    ELSE "left"

\* lines 587-594: the category a line cluster votes for, threshold = 5.0
vote(off) ==
    IF off.left <= 5 /\ off.right > 5 THEN "left"
    ELSE IF off.left > 5 /\ off.right <= 5 THEN "right"
    ELSE IF Abs(off.left - off.right) <= 5 THEN "center"
    ELSE "left"

\* lines 580-594: counts after the loop over the line clusters
counts_of(block) ==
    LET lcs == line_clusters(block)
    IN  [c \in {"left", "right", "center"} |->
            Cardinality({k \in 1..Len(lcs) : vote(offsets(lcs[k], block)) = c})]

max_key_Last(counts) ==
    LET m == Max({counts[c] : c \in DOMAIN counts})
    IN  IF counts["center"] = m THEN "center"
        ELSE IF counts["right"] = m THEN "right"
        ELSE "left"

\* line 595: max(counts, key=lambda k: counts[k]) over the keys in the order
\* left, right, center: the first key that no later key exceeds
max_key(counts) ==
    LET best2 == IF counts["right"] > counts["left"] THEN "right" ELSE "left"
    IN  IF counts["center"] > counts[best2] THEN "center" ELSE best2

\* a page's spans are about to be grouped
InitGroup ==
    /\ MainIdle
    /\ ReflowIdle
    /\ TextIdle
    /\ PlaceIdle
    /\ gpc = "group"
    /\ blocks = <<>>

\* the spans grouped so far
Grouped == Flatten([i \in 1..Len(blocks) |-> blocks[i].spans])

\* lines 457-470: one iteration of the loop of group_spans
GroupSpan ==
    /\ gpc = "group"
    /\ Len(Grouped) < MaxGroupSpans
    /\ \E span \in PageSpans : blocks' = place_from(blocks, 1, span)
    /\ UNCHANGED <<outsideGroup, gpc>>

\* lines 471 and 563: the blocks are returned
EndGroup ==
    /\ gpc = "group"
    /\ gpc' = "align"
    /\ UNCHANGED <<outsideGroup, blocks>>

\* lines 564-595: the alignment of the next block of the loop over the blocks
AlignBlock ==
    /\ gpc = "align"
    /\ \E i \in 1..Len(blocks) :
         /\ blocks[i].alignment = "none"
         /\ \A j \in 1..(i - 1) : blocks[j].alignment # "none"
         /\ blocks' = [blocks EXCEPT ![i].alignment = max_key(counts_of(blocks[i]))]
    /\ UNCHANGED <<outsideGroup, gpc>>

NextGroup ==
    \/ GroupSpan
    \/ EndGroup
    \/ AlignBlock

SpecGroup == InitGroup /\ [][NextGroup]_vars

\* the span a step of the grouping has just added, and the block it went to
Joined(span, i) ==
    /\ Len(blocks') = Len(blocks)
    /\ blocks'[i].spans = Append(blocks[i].spans, span)
    /\ \A j \in 1..Len(blocks) : j # i => blocks'[j] = blocks[j]

\* the bounding box of the block, expanded by 10 on every side, overlaps that
\* of the span, and the sizes differ by at most 0.5
Admits(block, span) ==
    /\ span.size - block.size \in -5..5
    /\ span.bbox[1] <= block.bbox[3] + 10
    /\ block.bbox[1] - 10 <= span.bbox[3]
    /\ span.bbox[2] <= block.bbox[4] + 10
    /\ block.bbox[2] - 10 <= span.bbox[4]

\* C22: grouping is a single-pass first-fit merge.  Every step of the grouping
\* adds one span: to the first block, in creation order, whose size is within
\* 0.5 of the span's and whose box expanded by 10 overlaps the span's, leaving
\* every other block as it was, or to a new block at the end when there is no
\* such block; and no step of the grouping or of the alignment removes a block
\* or takes a span out of the block it is in.
C22_FirstFitGrouping ==
    [][/\ Len(blocks') >= Len(blocks)
       /\ \A i \in 1..Len(blocks) :
              /\ Len(blocks'[i].spans) >= Len(blocks[i].spans)
              /\ SubSeq(blocks'[i].spans, 1, Len(blocks[i].spans)) = blocks[i].spans
       /\ GroupSpan =>
              \E span \in PageSpans :
                  LET admitting == {i \in 1..Len(blocks) : Admits(blocks[i], span)}
                  IN  IF admitting = {}
                      THEN /\ Len(blocks') = Len(blocks) + 1
                           /\ SubSeq(blocks', 1, Len(blocks)) = blocks
                           /\ blocks'[Len(blocks')].spans = <<span>>
                      ELSE Joined(span, Min(admitting))]_vars

\* two blocks of one span each, of the same size, and a third span that both
\* admit: it has joined the first and the second is still there
C22_Witness ==
    /\ Len(blocks) = 2
    /\ Len(blocks[1].spans) = 2
    /\ Len(blocks[2].spans) = 1
    /\ blocks[1].size = blocks[2].size
    /\ blocks[1].spans[2].size = blocks[1].size
    /\ Admits([size |-> blocks[1].size, bbox |-> blocks[1].spans[1].bbox], blocks[1].spans[2])
    /\ Admits(blocks[2], blocks[1].spans[2])
    /\ ~Admits([size |-> blocks[1].size, bbox |-> blocks[1].spans[1].bbox], blocks[2].spans[1])

\* the votes of the line clusters of a block for a category
Votes(block, c) ==
    Cardinality({k \in 1..Len(line_clusters(block)) :
                    vote(offsets(line_clusters(block)[k], block)) = c})

\* the category with the most votes, the earliest of left, right, center on a tie
Elected(block) ==
    LET most == Max({Votes(block, c) : c \in {"left", "right", "center"}})
    IN  IF Votes(block, "left") = most THEN "left"
        ELSE IF Votes(block, "right") = most THEN "right"
        ELSE "center"

\* the offsets pass none of the three tests
NoTest(off) ==
    /\ ~(off.left <= 5 /\ off.right > 5)
    /\ ~(off.left > 5 /\ off.right <= 5)
    /\ ~(off.left - off.right \in -5..5)

\* C23: alignment vote.  The alignment given to a block is the category that
\* most of its line clusters vote for, on a tie the earliest of left, right,
\* center; and a line cluster that passes none of the three tests votes left.
C23_AlignmentVote ==
    \A i \in 1..Len(blocks) :
        /\ blocks[i].alignment # "none" => blocks[i].alignment = Elected(blocks[i])
        /\ \A k \in 1..Len(line_clusters(blocks[i])) :
               NoTest(offsets(line_clusters(blocks[i])[k], blocks[i]))
                   => vote(offsets(line_clusters(blocks[i])[k], blocks[i])) = "left"

\* a block has been aligned on a tie of left and center, the left vote being
\* that of a line cluster that passes none of the tests
C23_Witness ==
    \E i \in 1..Len(blocks) :
        /\ blocks[i].alignment = "left"
        /\ Votes(blocks[i], "left") = 1 /\ Votes(blocks[i], "center") = 1
        /\ \E k \in 1..Len(line_clusters(blocks[i])) :
               NoTest(offsets(line_clusters(blocks[i])[k], blocks[i]))

\* the block is one line whose spans all start at the left edge of their box
OneLineAtBox(block) ==
    /\ Len(line_clusters(block)) = 1
    /\ \A k \in 1..Len(block.spans) : block.spans[k].origin[1] = block.spans[k].bbox[1]

\* C28: single-line blocks are classified center.  A block whose spans form
\* one line cluster and have their origin at the left edge of their box has
\* both offsets 0 and is given the alignment center, wherever it lies.
C28_SingleLineCenter ==
    \A i \in 1..Len(blocks) :
        OneLineAtBox(blocks[i]) =>
            /\ offsets(line_clusters(blocks[i])[1], blocks[i]) = [left |-> 0, right |-> 0]
            /\ blocks[i].alignment \in {"none", "center"}

\* two aligned single-line blocks at different places, one of them of two spans
C28_Witness ==
    \E i, j \in 1..Len(blocks) :
        /\ OneLineAtBox(blocks[i]) /\ blocks[i].alignment = "center"
        /\ OneLineAtBox(blocks[j]) /\ blocks[j].alignment = "center"
        /\ Len(blocks[i].spans) = 2
        /\ blocks[i].bbox[1] # blocks[j].bbox[1]

(* ---------------------------------------------------------------------- *)
(* Placement of the lines of a block (lines 733-763)                       *)
(* ---------------------------------------------------------------------- *)
line_start_Left(line) == bx0

\* lines 738-747: the x at which a line starts, by the block's alignment
line_start(line) ==
    LET line_width == SumWidth(line, 1, fontsize)
    IN  CASE align = "left" -> bx0
          [] align = "right" -> bx0 + block_width - line_width
          [] OTHER -> bx0 + (block_width - line_width) \div 2

RECURSIVE place_items(_, _, _, _, _, _)
\* lines 748-762: the loop over the segments k.. of line l, the pen being at x.
\* fonts tells, for each translated segment, whether its font file is valid
\* and whether insert_text accepts its font name; default_ok tells whether
\* insert_text accepts the default name
place_items(l, k, x, y, fonts, default_ok) ==
    IF k > Len(lines[l]) THEN <<>>
    ELSE LET seg == lines[l][k]
             call(how) == [line |-> l, item |-> k, x |-> x, y |-> y, how |-> how]
             rest(x2) == place_items(l, k + 1, x2, y, fonts, default_ok)
         IN  IF fonts[seg.seg] = "invalid" THEN rest(x)
             ELSE IF fonts[seg.seg] = "ok"
             THEN <<call("inserted")>> \o rest(x + measure(seg, fontsize))
             ELSE IF default_ok
             THEN <<call("fallback")>> \o rest(x + measure(seg, fontsize))
             ELSE <<call("raised")>>

RECURSIVE place_lines(_, _, _)
\* lines 737-763: the loop over the lines l.., y being counted from the origin
\* of the block's first span and advancing by fontsize * line_spacing
place_lines(l, fonts, default_ok) ==
    IF l > Len(lines) THEN <<>>
    ELSE LET calls == place_items(l, 1, line_start(lines[l]), (l - 1) * ((fontsize * 12) \div 10),
                                  fonts, default_ok)
         IN  IF calls # <<>> /\ calls[Len(calls)].how = "raised" THEN calls
             ELSE calls \o place_lines(l + 1, fonts, default_ok)

\* the reflow and the placement are given a block, its alignment and the
\* segments of its translation
InitPlace ==
    /\ MainIdle
    /\ TextIdle
    /\ GroupIdle
    /\ rpc = "measure"
    /\ segments \in SegmentLists
    /\ block_width \in BlockWidths
    /\ original_size \in OriginalSizes
    /\ original_lines \in LineCounts
    /\ fontsize = original_size
    /\ size_shrink = 0
    /\ full_width = 0
    /\ lines = <<>>
    /\ strategy = "none"
    /\ align \in {"left", "right", "center"}
    /\ bx0 \in {0, 50 * Pt}
    /\ drawn = <<>>

\* lines 733-763: the lines are written to the page
PlaceLines ==
    /\ rpc = "emit"
    /\ \E fonts \in [1..Len(segments) -> {"ok", "invalid", "raises"}], default_ok \in BOOLEAN :
         /\ drawn' = place_lines(1, fonts, default_ok)
         /\ rpc' = IF drawn' # <<>> /\ drawn'[Len(drawn')].how = "raised"
                   THEN "crashed" ELSE "placed"
    /\ UNCHANGED <<mainVars, textVars, groupVars, align, bx0, segments, block_width,
                   original_size, original_lines, fontsize, size_shrink, full_width, lines,
                   strategy>>

NextPlace ==
    \/ NextReflow
    \/ PlaceLines

SpecPlace == InitPlace /\ [][NextPlace]_vars

\* the insert_text call before call n on the same line, or 0
PrevOnLine(n) == IF n > 1 /\ drawn[n - 1].line = drawn[n].line THEN n - 1 ELSE 0

\* every segment of the line has been written
WholeLine(l) == \A k \in 1..Len(lines[l]) : \E n \in 1..Len(drawn) : drawn[n].line = l /\ drawn[n].item = k

====
